---- MODULE Spec2Model ----
(***************************************************************************)
(* The acoustic survey processor (DataProcessorApp.process_data and its    *)
(* helpers).  A workbook is a sequence of rows; process_data parses the    *)
(* Date/Time cells into a DateTime column, classifies every row, computes  *)
(* the daily summary and the overall metrics and stores them in            *)
(* latest_summary, latest_overall and raw_data.                            *)
(*                                                                         *)
(* Numbers.  A numeric cell is an exact rational [t |-> "num", n, d].      *)
(* Values the code obtains through log10 or sqrt are kept exact as well:   *)
(*   [t |-> "10log10", q, s]  stands for 10*log10(q + s*sqrt(10)),         *)
(*   [t |-> "sqrt", n, d]     stands for sqrt(n/d),                        *)
(* and collapse to "num" when the result is rational.  The model works in  *)
(* real arithmetic; floating-point rounding is not represented.            *)
(*                                                                         *)
(* The module also covers the buttons of DataProcessorApp that work on the *)
(* stored results, the NR tool (NRTool.generate and _nr_rating) and the    *)
(* load and export handlers of NoiseMetricsApp.                            *)
(***************************************************************************)
EXTENDS Integers, Sequences, FiniteSets, TLC

VARIABLES input_file, latest_summary, latest_overall, raw_data, excel_out, dialog,
          nth_call, nth_ret,
          curve_vars, text_boxes, output, ax,
          effect, self_df, self_summary, self_text, self_ax, exported

vars == <<input_file, latest_summary, latest_overall, raw_data, excel_out, dialog,
          nth_call, nth_ret, curve_vars, text_boxes, output, ax,
          effect, self_df, self_summary, self_text, self_ax, exported>>

\* The attributes of DataProcessorApp, and everything that is not an
\* attribute of DataProcessorApp nor the message box: the arguments and
\* result of a helper called directly, the widgets of the NR tool, the last
\* report, database, map or plot action of a DataProcessorApp button, and
\* the attributes of NoiseMetricsApp (self.df, self.summary, the content
\* of self.text and what is drawn on self.ax) with the workbook it exported
\* last.
appVars == <<input_file, latest_summary, latest_overall, raw_data, excel_out>>

sideVars == <<effect, self_df, self_summary, self_text, self_ax, exported>>

toolVars == <<nth_call, nth_ret, curve_vars, text_boxes, output, ax, sideVars>>

(* ------------------------------ bounds -------------------------------- *)

\* Longest workbook of the main specification.
MaxRows == 3

\* Longest workbook of the clock-time specification.
MaxClockRows == 2

\* Longest series and highest rank handed to nth_highest / nth_lowest when
\* the two helpers are called on their own.
MaxSeries == 3

MaxRank == 3

\* Longest workbook of the specification with partly missing levels.
MaxLevelRows == 3

\* Longest workbook of the specification of the energy averages.
MaxEnergyRows == 4

\* Longest workbook the user can choose in the dialog specification.
MaxAppRows == 2

\* Largest shift, in half decibels, of a band of a pasted spectrum away
\* from an NR curve.
MaxShift == 4

\* Most NR curves ticked at once.
MaxSelected == 2

\* Most rows that follow the nine-row block of a long workbook.
MaxExtra == 2

(* --------------------------- optional values -------------------------- *)

\* Python None, and a present value.
None == <<>>

Some(x) == <<x>>

(* ------------------------------ numbers ------------------------------- *)

Abs(x) == IF x < 0 THEN -x ELSE x

RECURSIVE GCD(_, _)
GCD(a, b) == IF b = 0 THEN a ELSE GCD(b, a % b)

\* The rational n/d in lowest terms, d > 0.
Q(n, d) ==
    LET g == GCD(Abs(n), Abs(d))
        sgn == IF d < 0 THEN -1 ELSE 1
    IN [t |-> "num", n |-> sgn * (n \div g), d |-> sgn * (d \div g)]

Whole(n) == Q(n, 1)

QAdd(a, b) == Q(a.n * b.d + b.n * a.d, a.d * b.d)

QMul(a, b) == Q(a.n * b.n, a.d * b.d)

QLe(a, b) == a.n * b.d <= b.n * a.d

\* numpy.nan / pandas NaN: a missing number.
NaN == [t |-> "nan"]

\* The sentinel the code stores for an empty subset.
NoData == [t |-> "No Data"]

\* pd.notnull(x) for a number cell.
notnull(x) == x.t # "nan"

RECURSIVE Pow10(_)
Pow10(k) == IF k = 0 THEN 1 ELSE 10 * Pow10(k - 1)

RECURSIVE Log10Exact(_)
\* k with 10^k = m when m is a power of ten, else -1.
Log10Exact(m) ==
    IF m = 1 THEN 0
    ELSE IF m <= 0 \/ m % 10 # 0 THEN -1
    ELSE LET k == Log10Exact(m \div 10) IN IF k < 0 THEN -1 ELSE k + 1

\* 10 ** (x / 10) for a level x that is a multiple of 10 dB (the LAeq levels
\* of the model), whose linear power is a whole number.
Power(x) == Whole(Pow10(x.n \div 10))

\* 10 * np.log10(q + s*sqrt(10)), q and s rationals.
TenLog10(q, s) ==
    IF s.n = 0 /\ q.d = 1 /\ Log10Exact(q.n) >= 0
    THEN Whole(10 * Log10Exact(q.n))
    ELSE [t |-> "10log10", q |-> q, s |-> s]

\* 10 ** (v / 10) of a level v that TenLog10 produced: <<q, s>>.
Linear(v) ==
    IF v.t = "10log10" THEN <<v.q, v.s>> ELSE <<Power(v), Whole(0)>>

\* sqrt(n/d) for a rational n/d >= 0.
Sqrt(v) ==
    IF \E r \in 0..v.n : r * r = v.n /\ \E s \in 1..v.d : s * s = v.d
    THEN Q(CHOOSE r \in 0..v.n : r * r = v.n, CHOOSE s \in 1..v.d : s * s = v.d)
    ELSE [t |-> "sqrt", n |-> v.n, d |-> v.d]

(* ------------------------------ sequences ----------------------------- *)

RECURSIVE SumQ(_)
SumQ(s) == IF s = <<>> THEN Whole(0) ELSE QAdd(Head(s), SumQ(Tail(s)))

\* Series.dropna(): the non-missing entries, order kept.
dropna(s) == SelectSeq(s, notnull)

\* Series.mean(): NaN entries are skipped.
mean(s) == QMul(SumQ(dropna(s)), Q(1, Len(dropna(s))))

RECURSIVE SortAsc(_)
\* The entries of a sequence of rationals in ascending order (insertion sort).
SortAsc(s) ==
    IF s = <<>> THEN <<>>
    ELSE LET rest == SortAsc(Tail(s))
             x == Head(s)
             k == Cardinality({i \in 1..Len(rest) : ~QLe(x, rest[i])})
         IN SubSeq(rest, 1, k) \o <<x>> \o SubSeq(rest, k + 1, Len(rest))

Reverse(s) == [i \in 1..Len(s) |-> s[Len(s) + 1 - i]]

Column(df, c) == [i \in 1..Len(df) |-> df[i][c]]

(* --------------------------- dates and times -------------------------- *)

\* A datetime.time is <<hour, minute, second>>; time(h, m, s) builds one and
\* Python orders times lexicographically.
time(h, m, s) == <<h, m, s>>

TimeLt(a, b) ==
    \/ a[1] < b[1]
    \/ a[1] = b[1] /\ a[2] < b[2]
    \/ a[1] = b[1] /\ a[2] = b[2] /\ a[3] < b[3]

TimeGe(a, b) == ~TimeLt(a, b)

\* A calendar date is its day ordinal (date.toordinal()), so that
\* "minus timedelta(days=1)" is ord - 1.  A pandas Timestamp is a date with a
\* time of day; NaT is the missing Timestamp.
Timestamp(ord, hms) == [nat |-> FALSE, ord |-> ord, hms |-> hms]

NaT == [nat |-> TRUE]

isnull(dt) == dt.nat

\* A date (datetime.date) as returned by Timestamp.date().
Date(ord) == [nat |-> FALSE, ord |-> ord]

\* parse_date: a Date cell written as mm/dd/yyyy or as yyyy-mm-dd gives the
\* Timestamp of that day at midnight; pd.to_datetime raises on any other
\* text under both formats, and the second except returns NaT; a blank cell
\* (NaN) is converted to NaT by pd.to_datetime without raising.
parse_date(x) ==
    IF x.k \in {"mdY", "iso"} THEN Timestamp(x.ord, time(0, 0, 0)) ELSE NaT

\* get_date_only with the 07:00:00 boundary on the wrong side (<= for <).
get_date_only_le(dt) ==
    IF isnull(dt) THEN NaT
    ELSE IF ~TimeLt(time(7, 0, 0), dt.hms) THEN Date(dt.ord - 1) ELSE Date(dt.ord)

\* get_date_only without the rollover: every timestamp keeps its own
\* calendar date.
get_date_only_same(dt) ==
    IF isnull(dt) THEN NaT ELSE Date(dt.ord)

\* get_date_only
get_date_only(dt) ==
    IF isnull(dt) THEN NaT
    ELSE IF TimeLt(dt.hms, time(7, 0, 0)) THEN Date(dt.ord - 1) ELSE Date(dt.ord)

\* classify_period with 23:00:00 itself left in the day (> for >=).
classify_period_gt(dt) ==
    IF isnull(dt) THEN ""
    ELSE IF TimeLt(time(23, 0, 0), dt.hms) \/ TimeLt(dt.hms, time(7, 0, 0))
         THEN "Night-time" ELSE "Daytime"

\* classify_period without the pd.isnull guard: every comparison with NaT is
\* False, so a missing timestamp falls through to "Daytime".
classify_period_nat(dt) ==
    IF isnull(dt) THEN "Daytime"
    ELSE IF TimeGe(dt.hms, time(23, 0, 0)) \/ TimeLt(dt.hms, time(7, 0, 0))
         THEN "Night-time" ELSE "Daytime"

\* process_data.classify_period
classify_period(dt) ==
    IF isnull(dt) THEN ""
    ELSE IF TimeGe(dt.hms, time(23, 0, 0)) \/ TimeLt(dt.hms, time(7, 0, 0))
         THEN "Night-time" ELSE "Daytime"

\* classify_period_lden with the evening starting one boundary late
\* (19:00:00 itself still Day).
classify_period_lden_late(dt) ==
    IF isnull(dt) THEN ""
    ELSE IF TimeGe(dt.hms, time(7, 0, 0)) /\ ~TimeLt(time(19, 0, 0), dt.hms) THEN "Day"
    ELSE IF TimeGe(dt.hms, time(19, 0, 0)) /\ TimeLt(dt.hms, time(23, 0, 0)) THEN "Evening"
    ELSE "Night"

\* classify_period_lden whose evening ends an hour early (22:00:00 for
\* 23:00:00).
classify_period_lden_22(dt) ==
    IF isnull(dt) THEN ""
    ELSE IF TimeGe(dt.hms, time(7, 0, 0)) /\ TimeLt(dt.hms, time(19, 0, 0)) THEN "Day"
    ELSE IF TimeGe(dt.hms, time(19, 0, 0)) /\ TimeLt(dt.hms, time(22, 0, 0)) THEN "Evening"
    ELSE "Night"

\* process_data.classify_period_lden
classify_period_lden(dt) ==
    IF isnull(dt) THEN ""
    ELSE IF TimeGe(dt.hms, time(7, 0, 0)) /\ TimeLt(dt.hms, time(19, 0, 0)) THEN "Day"
    ELSE IF TimeGe(dt.hms, time(19, 0, 0)) /\ TimeLt(dt.hms, time(23, 0, 0)) THEN "Evening"
    ELSE "Night"

(* ------------------------ step 1: parse columns ----------------------- *)

\* The Time_str column: strftime("%H:%M:%S") of a time cell, "" for a blank
\* one.  The text "HH:MM:SS" is kept as the three numbers it spells.
Time_str(t) == IF t.k = "time" THEN <<t.hms[1], t.hms[2], t.hms[3]>> ELSE <<>>

\* The DateTime column: ParsedDate.dt.strftime("%Y-%m-%d") + " " + Time_str
\* parsed with "%Y-%m-%d %H:%M:%S" and errors='coerce'.  A NaT date formats
\* to NaN and the sum stays NaN; a blank time leaves "yyyy-mm-dd ", which does
\* not match the format; both are coerced to NaT.
DateTime(parsed, tstr) ==
    IF isnull(parsed) \/ Len(tstr) # 3 THEN NaT
    ELSE Timestamp(parsed.ord, time(tstr[1], tstr[2], tstr[3]))

\* The Integrated_LAeq column left in dB (the conversion dropped).
Integrated_LAeq_raw(x) == IF notnull(x) THEN x ELSE NaN

\* Integrated_LAeq: 10 ** (x / 10) if pd.notnull(x) else np.nan
Integrated_LAeq(x) == IF notnull(x) THEN Power(x) ELSE NaN

\* One row of df after step 1 (the sheet's columns and the derived ones).
ParsedRow(r) ==
    LET pd == parse_date(r.Date)
        ts == Time_str(r.Time)
        dt == DateTime(pd, ts)
    IN [Date |-> r.Date, Time |-> r.Time, LAeq |-> r.LAeq, LAmax |-> r.LAmax,
        LA90 |-> r.LA90, LAmin |-> r.LAmin,
        ParsedDate |-> pd, Time_str |-> ts, DateTime |-> dt,
        Period |-> classify_period(dt),
        Integrated_LAeq |-> Integrated_LAeq(r.LAeq),
        DateOnly |-> get_date_only(dt)]

\* df after step 1.
Parsed(sheet) == [i \in 1..Len(sheet) |-> ParsedRow(sheet[i])]

\* df['ParsedDate'].dt raises AttributeError ("Can only use .dt accessor with
\* datetimelike values") when the column is not datetime64.  Series.apply on
\* a sheet without rows returns the empty object column unchanged, so the
\* accessor raises; with at least one row the Timestamps/NaT returned by
\* parse_date are inferred as datetime64.
ParseRaises(sheet) == Len(sheet) = 0

(* ------------------------------ reducers ------------------------------ *)

\* The rank of the 10th highest / 10th lowest statistics.
NthRank == 10

\* nth_highest that asks for more than n values (a wrong length test).
nth_highest_gt(series, n) ==
    LET sorted == Reverse(SortAsc(dropna(series)))
    IN IF Len(sorted) > n THEN Some(sorted[n]) ELSE None

\* nth_highest: None when fewer than n non-missing values exist.
nth_highest(series, n) ==
    LET sorted == Reverse(SortAsc(dropna(series)))
    IN IF Len(sorted) >= n THEN Some(sorted[n]) ELSE None

\* nth_lowest that sorts like nth_highest does.
nth_lowest_desc(series, n) ==
    LET sorted == Reverse(SortAsc(dropna(series)))
    IN IF Len(sorted) >= n THEN Some(sorted[n]) ELSE None

\* nth_lowest
nth_lowest(series, n) ==
    LET sorted == SortAsc(dropna(series))
    IN IF Len(sorted) >= n THEN Some(sorted[n]) ELSE None

\* A percentile whose virtual index is len(a) * p / 100, one rank too far
\* and held at the last rank.
percentile_n(a, p) ==
    LET sorted == SortAsc(a)
        top == (Len(a) - 1) * 100
        pos == IF Len(a) * p > top THEN top ELSE Len(a) * p
        lo == pos \div 100
        fr == pos % 100
    IN IF fr = 0 THEN sorted[lo + 1]
       ELSE QAdd(sorted[lo + 1],
                 QMul(Q(fr, 100), QAdd(sorted[lo + 2], QMul(Whole(-1), sorted[lo + 1]))))

\* A percentile read off the array as it stands, without sorting it.
percentile_unsorted(a, p) ==
    LET pos == (Len(a) - 1) * p
        lo == pos \div 100
        fr == pos % 100
    IN IF fr = 0 THEN a[lo + 1]
       ELSE QAdd(a[lo + 1],
                 QMul(Q(fr, 100), QAdd(a[lo + 2], QMul(Whole(-1), a[lo + 1]))))

\* np.percentile(a, p) with the default linear interpolation, a non-empty and
\* free of NaN: the value at the virtual index (len(a) - 1) * p / 100 of the
\* sorted array.
percentile(a, p) ==
    LET sorted == SortAsc(a)
        pos == (Len(a) - 1) * p
        lo == pos \div 100
        fr == pos % 100
    IN IF fr = 0 THEN sorted[lo + 1]
       ELSE QAdd(sorted[lo + 1],
                 QMul(Q(fr, 100), QAdd(sorted[lo + 2], QMul(Whole(-1), sorted[lo + 1]))))

\* The mode taken from the other end of Series.mode(): the largest of the
\* most frequent values.
mode_last(series) ==
    LET a == dropna(series)
        count(v) == Cardinality({i \in 1..Len(a) : a[i] = v})
        best == {a[i] : i \in {j \in 1..Len(a) : \A k \in 1..Len(a) : count(a[k]) <= count(a[j])}}
    IN CHOOSE v \in best : \A w \in best : QLe(w, v)

\* Series.mode().iloc[0]: Series.mode() drops NaN and returns the most
\* frequent values in ascending order.
mode(series) ==
    LET a == dropna(series)
        count(v) == Cardinality({i \in 1..Len(a) : a[i] = v})
        best == {a[i] : i \in {j \in 1..Len(a) : \A k \in 1..Len(a) : count(a[k]) <= count(a[j])}}
    IN CHOOSE v \in best : \A w \in best : QLe(v, w)

\* np.std(series): numpy calls Series.std(ddof=0), the population standard
\* deviation sqrt(mean((x - mean(x))^2)), over the non-missing values.
std(series) ==
    LET a == dropna(series)
        m == mean(a)
        dev2 == [i \in 1..Len(a) |->
                    LET dlt == QAdd(a[i], QMul(Whole(-1), m)) IN QMul(dlt, dlt)]
    IN Sqrt(QMul(SumQ(dev2), Q(1, Len(a))))

\* df.loc[df[by] == label, col]
Loc(df, by, label, col) ==
    Column(SelectSeq(df, LAMBDA r : r[by] = label), col)

empty(s) == Len(s) = 0

\* The arithmetic mean of the levels in dB in place of the energy average.
LAeqOf_arith(integrated) ==
    IF ~empty(integrated) /\ ~empty(dropna(integrated))
    THEN LET lin == dropna(integrated)
         IN mean([i \in 1..Len(lin) |-> TenLog10(lin[i], Whole(0))])
    ELSE NoData

\* 10 * np.log10(series.mean()) when the series has a non-missing value,
\* else "No Data".
LAeqOf(integrated) ==
    IF ~empty(integrated) /\ ~empty(dropna(integrated))
    THEN TenLog10(mean(integrated), Whole(0)) ELSE NoData

\* np.percentile(series.dropna(), p) when the series has a non-missing
\* value, else "No Data".
PercentileOf(series, p) ==
    IF ~empty(series) /\ ~empty(dropna(series))
    THEN percentile(dropna(series), p) ELSE NoData

\* series.mode().iloc[0] when the series has a non-missing value, else
\* "No Data".
ModeOf(series) ==
    IF ~empty(series) /\ ~empty(dropna(series)) THEN mode(series) ELSE NoData

(* ----------------------- step 2: daily summary ------------------------ *)

RECURSIVE SortedSeq(_)
\* sorted(S) for a set of day ordinals.
SortedSeq(S) ==
    IF S = {} THEN <<>>
    ELSE LET m == CHOOSE x \in S : \A y \in S : x <= y
         IN <<m>> \o SortedSeq(S \ {m})

RECURSIVE FirstSeen(_, _)
\* The distinct entries of a sequence in order of first appearance.
FirstSeen(s, seen) ==
    IF s = <<>> THEN <<>>
    ELSE IF Head(s) \in seen THEN FirstSeen(Tail(s), seen)
    ELSE <<Head(s)>> \o FirstSeen(Tail(s), seen \cup {Head(s)})

\* unique_dates without sorted(): Series.unique() keeps the order of first
\* appearance.
unique_dates_unsorted(df) ==
    LET kept == SelectSeq(df, LAMBDA r : ~isnull(r.DateOnly))
    IN FirstSeen([i \in 1..Len(kept) |-> kept[i].DateOnly.ord], {})

\* sorted(df['DateOnly'].dropna().unique())
unique_dates(df) ==
    SortedSeq({df[i].DateOnly.ord : i \in {j \in 1..Len(df) : ~isnull(df[j].DateOnly)}})

\* The rows of one period and one date, kept only when their LAeq is present.
PeriodRows_complete(df, period, d) ==
    SelectSeq(df, LAMBDA r : r.Period = period /\ r.DateOnly = Date(d) /\ notnull(r.LAeq))

\* The rows of one period and one reporting date:
\* df[(df['Period'] == period) & (df['DateOnly'] == d)]
PeriodRows(df, period, d) ==
    SelectSeq(df, LAMBDA r : r.Period = period /\ r.DateOnly = Date(d))

\* One row of the daily summary (the dict appended to daily_data).
DailyRow(df, d) ==
    LET day_rows == PeriodRows(df, "Daytime", d)
        night_rows == PeriodRows(df, "Night-time", d)
    IN  "Date" :> Date(d)
     @@ "LAeq Day" :> LAeqOf(Column(day_rows, "Integrated_LAeq"))
     @@ "LAeq Night" :> LAeqOf(Column(night_rows, "Integrated_LAeq"))
     @@ "LAmax Day" :> PercentileOf(Column(day_rows, "LAmax"), 95)
     @@ "LAmax Night" :> PercentileOf(Column(night_rows, "LAmax"), 95)
     @@ "LA90 Day" :> ModeOf(Column(day_rows, "LA90"))
     @@ "LA90 Night" :> ModeOf(Column(night_rows, "LA90"))
     @@ "LAmin Day" :> PercentileOf(Column(day_rows, "LAmin"), 5)
     @@ "LAmin Night" :> PercentileOf(Column(night_rows, "LAmin"), 5)

\* daily_summary_df: one row per entry of unique_dates, in that order.
daily_summary_df(df) ==
    LET dates == unique_dates(df)
    IN [i \in 1..Len(dates) |-> DailyRow(df, dates[i])]

(* ---------------------- step 3: overall values ------------------------ *)

\* "x if x is not None else 'No Data'"
OrNoData(x) == IF x # None THEN x[1] ELSE NoData

\* 10 ** ((v + offset) / 10) as <<q, s>> = q + s*sqrt(10), for the offsets
\* 0, 5 and 10 dB the code uses: 10 ** 0.5 = sqrt(10) and 10 ** 1 = 10.
Raised(v, offset) ==
    LET lin == Linear(v)
    IN IF offset = 0 THEN lin
       ELSE IF offset = 5 THEN <<QMul(Whole(10), lin[2]), lin[1]>>
       ELSE <<QMul(Whole(10), lin[1]), QMul(Whole(10), lin[2])>>

Weighted(w, lin) == <<QMul(w, lin[1]), QMul(w, lin[2])>>

\* 10 * np.log10(series.apply(lambda x: 10**(x/10)).mean()) for a series
\* already freed of NaN, None when it is empty.
EnergyLevel(series) ==
    IF ~empty(series)
    THEN Some(TenLog10(mean([i \in 1..Len(series) |-> Power(series[i])]), Whole(0)))
    ELSE None

\* The Period_lden column added to df.
WithPeriodLden(df) ==
    [i \in 1..Len(df) |-> df[i] @@ ("Period_lden" :> classify_period_lden(df[i].DateTime))]

\* Lden that asks only for Day and Night and leaves an empty Evening out of
\* the sum.
Lden_skip_evening(df) ==
    LET LAeq_day_lden == EnergyLevel(dropna(Loc(df, "Period_lden", "Day", "LAeq")))
        LAeq_evening_lden == EnergyLevel(dropna(Loc(df, "Period_lden", "Evening", "LAeq")))
        LAeq_night_lden == EnergyLevel(dropna(Loc(df, "Period_lden", "Night", "LAeq")))
    IN IF LAeq_day_lden # None /\ LAeq_night_lden # None
       THEN LET a == Weighted(Q(12, 24), Raised(LAeq_day_lden[1], 0))
                b == IF LAeq_evening_lden # None
                     THEN Weighted(Q(4, 24), Raised(LAeq_evening_lden[1], 5))
                     ELSE <<Whole(0), Whole(0)>>
                c == Weighted(Q(8, 24), Raised(LAeq_night_lden[1], 10))
            IN TenLog10(QAdd(QAdd(a[1], b[1]), c[1]), QAdd(QAdd(a[2], b[2]), c[2]))
       ELSE NoData

\* Lden whose three weights are the shares of the samples that fall into
\* each period instead of 12/24, 4/24 and 8/24.
Lden_by_count(df) ==
    LET day_lden == dropna(Loc(df, "Period_lden", "Day", "LAeq"))
        evening_lden == dropna(Loc(df, "Period_lden", "Evening", "LAeq"))
        night_lden == dropna(Loc(df, "Period_lden", "Night", "LAeq"))
        total == Len(day_lden) + Len(evening_lden) + Len(night_lden)
    IN IF ~empty(day_lden) /\ ~empty(evening_lden) /\ ~empty(night_lden)
       THEN LET a == Weighted(Q(Len(day_lden), total), Raised(EnergyLevel(day_lden)[1], 0))
                b == Weighted(Q(Len(evening_lden), total), Raised(EnergyLevel(evening_lden)[1], 5))
                c == Weighted(Q(Len(night_lden), total), Raised(EnergyLevel(night_lden)[1], 10))
            IN TenLog10(QAdd(QAdd(a[1], b[1]), c[1]), QAdd(QAdd(a[2], b[2]), c[2]))
       ELSE NoData

\* Lden (Day-Evening-Night)
Lden(df) ==
    LET LAeq_day_lden == EnergyLevel(dropna(Loc(df, "Period_lden", "Day", "LAeq")))
        LAeq_evening_lden == EnergyLevel(dropna(Loc(df, "Period_lden", "Evening", "LAeq")))
        LAeq_night_lden == EnergyLevel(dropna(Loc(df, "Period_lden", "Night", "LAeq")))
    IN IF LAeq_day_lden # None /\ LAeq_evening_lden # None /\ LAeq_night_lden # None
       THEN LET a == Weighted(Q(12, 24), Raised(LAeq_day_lden[1], 0))
                b == Weighted(Q(4, 24), Raised(LAeq_evening_lden[1], 5))
                c == Weighted(Q(8, 24), Raised(LAeq_night_lden[1], 10))
            IN TenLog10(QAdd(QAdd(a[1], b[1]), c[1]), QAdd(QAdd(a[2], b[2]), c[2]))
       ELSE NoData

\* Ldn computed from the Day and Night subsets of the Lden partition.
Ldn_from_lden(df) ==
    LET LAeq_day_dn == EnergyLevel(dropna(Loc(df, "Period_lden", "Day", "LAeq")))
        LAeq_night_dn == EnergyLevel(dropna(Loc(df, "Period_lden", "Night", "LAeq")))
    IN IF LAeq_day_dn # None /\ LAeq_night_dn # None
       THEN LET a == Weighted(Q(16, 24), Raised(LAeq_day_dn[1], 0))
                c == Weighted(Q(8, 24), Raised(LAeq_night_dn[1], 10))
            IN TenLog10(QAdd(a[1], c[1]), QAdd(a[2], c[2]))
       ELSE NoData

\* Ldn (Day-Night)
Ldn(df) ==
    LET LAeq_day_dn == EnergyLevel(dropna(Loc(df, "Period", "Daytime", "LAeq")))
        LAeq_night_dn == EnergyLevel(dropna(Loc(df, "Period", "Night-time", "LAeq")))
    IN IF LAeq_day_dn # None /\ LAeq_night_dn # None
       THEN LET a == Weighted(Q(16, 24), Raised(LAeq_day_dn[1], 0))
                c == Weighted(Q(8, 24), Raised(LAeq_night_dn[1], 10))
            IN TenLog10(QAdd(a[1], c[1]), QAdd(a[2], c[2]))
       ELSE NoData

\* StdOf with the number 0 standing in for an empty subset.
StdOf_zero(series) == IF ~empty(series) THEN std(series) ELSE Whole(0)

\* np.std(series) when the series (already freed of NaN) is not empty.
StdOf(series) == IF ~empty(series) THEN std(series) ELSE NoData

\* The level L-n read as the n-th percentile instead of the level exceeded
\* n percent of the time.
LevelOf_flipped(series, p) ==
    IF ~empty(series) THEN percentile(series, 100 - p) ELSE NoData

\* np.percentile(series, p) when the series (already freed of NaN) is not
\* empty.
LevelOf(series, p) == IF ~empty(series) THEN percentile(series, p) ELSE NoData

\* overall_values, df carrying the Period_lden column.
overall_values(df) ==
    LET day_LAeq == dropna(Loc(df, "Period", "Daytime", "LAeq"))
        night_LAeq == dropna(Loc(df, "Period", "Night-time", "LAeq"))
    IN  "Overall LAeq Day" :> LAeqOf(Loc(df, "Period", "Daytime", "Integrated_LAeq"))
     @@ "Overall LAeq Night" :> LAeqOf(Loc(df, "Period", "Night-time", "Integrated_LAeq"))
     @@ "Overall LAmax Day" :> PercentileOf(Loc(df, "Period", "Daytime", "LAmax"), 95)
     @@ "Overall LAmax Night" :> PercentileOf(Loc(df, "Period", "Night-time", "LAmax"), 95)
     @@ "Overall LA90 Day" :> ModeOf(Loc(df, "Period", "Daytime", "LA90"))
     @@ "Overall LA90 Night" :> ModeOf(Loc(df, "Period", "Night-time", "LA90"))
     @@ "Overall LAmin Day" :> PercentileOf(Loc(df, "Period", "Daytime", "LAmin"), 5)
     @@ "Overall LAmin Night" :> PercentileOf(Loc(df, "Period", "Night-time", "LAmin"), 5)
     @@ "10th Highest Lmax Day" :>
            OrNoData(nth_highest(Loc(df, "Period", "Daytime", "LAmax"), NthRank))
     @@ "10th Highest Lmax Night" :>
            OrNoData(nth_highest(Loc(df, "Period", "Night-time", "LAmax"), NthRank))
     @@ "10th Lowest L90 Day" :>
            OrNoData(nth_lowest(Loc(df, "Period", "Daytime", "LA90"), NthRank))
     @@ "10th Lowest L90 Night" :>
            OrNoData(nth_lowest(Loc(df, "Period", "Night-time", "LA90"), NthRank))
     @@ "Overall L10 Day" :> LevelOf(day_LAeq, 90)
     @@ "Overall L50 Day" :> LevelOf(day_LAeq, 50)
     @@ "Overall L95 Day" :> LevelOf(day_LAeq, 5)
     @@ "Overall L10 Night" :> LevelOf(night_LAeq, 90)
     @@ "Overall L50 Night" :> LevelOf(night_LAeq, 50)
     @@ "Overall L95 Night" :> LevelOf(night_LAeq, 5)
     @@ "Lden (Day-Evening-Night)" :> Lden(df)
     @@ "Ldn (Day-Night)" :> Ldn(df)
     @@ "Overall LAeq Std Day" :> StdOf(day_LAeq)
     @@ "Overall LAeq Std Night" :> StdOf(night_LAeq)

(* ------------------------------ workbooks ----------------------------- *)

\* Cells of the Date column: text in one of the two accepted formats (ord is
\* the day it names), any other text, or a blank cell.
DateCell(k, ord) == [k |-> k, ord |-> ord]

BadDate == [k |-> "bad"]

BlankDate == [k |-> "null"]

\* Cells of the Time column: a datetime.time or a blank cell.
TimeCell(h, m, s) == [k |-> "time", hms |-> time(h, m, s)]

BlankTime == [k |-> "null"]

\* Day ordinals of 2024-03-01 and 2024-03-02 (date.toordinal()).
Days == <<738946, 738947>>

Mar01 == Days[1]

Mar02 == Days[2]

Row(stamp, lv) ==
    [Date |-> stamp[1], Time |-> stamp[2],
     LAeq |-> lv[1], LAmax |-> lv[2], LA90 |-> lv[3], LAmin |-> lv[4]]

\* Level cells <<LAeq, LAmax, LA90, LAmin>> of the main specification: two
\* complete measurements and one with every level missing.
Profiles ==
    { <<Whole(40), Whole(62), Whole(35), Whole(30)>>,
      <<Whole(50), Whole(70), Whole(30), Whole(33)>>,
      <<NaN, NaN, NaN, NaN>> }

\* Timestamps of the main specification: a Day sample and an Evening sample,
\* a Night sample before 07:00 and a row whose date does not parse.
Stamps ==
    { <<DateCell("iso", Mar01), TimeCell(12, 30, 0)>>,
      <<DateCell("mdY", Mar02), TimeCell(6, 59, 59)>>,
      <<DateCell("iso", Mar02), TimeCell(19, 0, 0)>>,
      <<BadDate, TimeCell(12, 30, 0)>> }

Rows == {Row(st, lv) : st \in Stamps, lv \in Profiles}

\* Timestamps of the clock-time specification: both sides of every period
\* boundary on two days, and the three ways a timestamp fails to parse.
ClockTimes ==
    { <<0, 0, 0>>, <<6, 59, 59>>, <<7, 0, 0>>, <<18, 59, 59>>,
      <<19, 0, 0>>, <<22, 59, 59>>, <<23, 0, 0>>, <<23, 59, 59>> }

ClockStamps ==
    {<<DateCell("mdY", Mar01), TimeCell(t[1], t[2], t[3])>> : t \in ClockTimes}
    \cup {<<DateCell("iso", Mar02), TimeCell(t[1], t[2], t[3])>> : t \in ClockTimes}
    \cup { <<BadDate, TimeCell(7, 0, 0)>>,
           <<BlankDate, TimeCell(23, 0, 0)>>,
           <<DateCell("iso", Mar02), BlankTime>> }

ClockRows ==
    {Row(st, <<Whole(40), Whole(62), Whole(35), Whole(30)>>) : st \in ClockStamps}

\* The workbooks of at most n rows drawn from a set of rows.
Sheets(rows, n) == UNION {[1..k -> rows] : k \in 0..n}

(* --------------------- the Noise Rating (NR) curves ------------------- *)

\* NR_CURVES: the reference level of every curve in the octave bands 63 Hz
\* to 8 kHz, keyed by the number n of the curve 'NRn'.
NR_CURVES ==
    (20 :> <<51, 39, 30, 22, 17, 14, 12, 11>>) @@
    (25 :> <<55, 44, 35, 28, 23, 20, 18, 17>>) @@
    (30 :> <<59, 48, 39, 33, 28, 25, 23, 22>>) @@
    (35 :> <<63, 52, 44, 38, 33, 30, 28, 27>>) @@
    (40 :> <<67, 56, 48, 42, 38, 35, 33, 32>>) @@
    (45 :> <<71, 60, 52, 47, 43, 40, 38, 37>>) @@
    (50 :> <<75, 64, 56, 51, 48, 45, 43, 42>>)

FREQUENCIES == <<"63", "125", "250", "500", "1k", "2k", "4k", "8k">>

\* The three conditions, in the order their text boxes are created.
Conditions == <<"Low", "Medium", "High">>

\* NRTool.__init__ / _build_ui: only NR35 is ticked, the text boxes, the
\* output box and the axes are empty.
NRBuilt ==
    /\ curve_vars = [c \in DOMAIN NR_CURVES |-> c = 35]
    /\ text_boxes = [cond \in {"Low", "Medium", "High"} |-> <<>>]
    /\ output = <<>>
    /\ ax = <<>>

\* No helper has been called on its own.
NthIdle ==
    /\ nth_call = None
    /\ nth_ret = None

\* No button of DataProcessorApp has acted yet; NoiseMetricsApp.__init__.
SideIdle ==
    /\ effect = None
    /\ self_df = None
    /\ self_summary = None
    /\ self_text = <<>>
    /\ self_ax = <<>>
    /\ exported = None

(* ---------------------------- the application ------------------------- *)

\* After __init__ (no file chosen) or after browse_file chose a workbook.
InitWith(sheets) ==
    /\ input_file \in {None} \cup {Some(s) : s \in sheets}
    /\ latest_summary = None
    /\ latest_overall = None
    /\ raw_data = None
    /\ excel_out = None
    /\ dialog = ""
    /\ NthIdle
    /\ NRBuilt
    /\ SideIdle

Init == InitWith(Sheets(Rows, MaxRows))

InitClock == InitWith(Sheets(ClockRows, MaxClockRows))

\* The try block raises before any result is stored: pd.read_excel raises
\* when no file was chosen, step 1 raises on a workbook without rows.
Raises == IF input_file = None THEN TRUE ELSE ParseRaises(input_file[1])

\* process_data, the try block left through an exception: only the error
\* dialog is shown.
ProcessDataError ==
    /\ Raises
    /\ dialog' = "Processing Error"
    /\ UNCHANGED <<input_file, latest_summary, latest_overall, raw_data, excel_out>>
    /\ UNCHANGED toolVars

\* The workbook written by step 4.
Workbook(summary, overall, df) ==
    [DailySummary |-> summary, OverallMetrics |-> overall, FullData |-> df]

\* process_data whose newly stored overall metrics keep the previous run's
\* value wherever the new run has "No Data".
ProcessDataDone_stale ==
    /\ ~Raises
    /\ LET df1 == Parsed(input_file[1])
           summary == daily_summary_df(df1)
           df == WithPeriodLden(df1)
           new == overall_values(df)
           overall == [k \in DOMAIN new |->
                          IF new[k] = NoData /\ latest_overall # None
                          THEN latest_overall[1][k] ELSE new[k]]
       IN /\ latest_overall' = Some(overall)
          /\ latest_summary' = Some(summary)
          /\ raw_data' = Some(df)
          /\ \E output_file \in BOOLEAN :
                excel_out' = IF output_file THEN Some(Workbook(summary, overall, df))
                             ELSE excel_out
    /\ dialog' = "Success"
    /\ UNCHANGED <<input_file, toolVars>>

\* process_data, the try block run to its end; the user names an output file
\* in the save dialog or cancels it.
ProcessDataDone ==
    /\ ~Raises
    /\ LET df1 == Parsed(input_file[1])
           summary == daily_summary_df(df1)
           df == WithPeriodLden(df1)
           overall == overall_values(df)
       IN /\ latest_overall' = Some(overall)
          /\ latest_summary' = Some(summary)
          /\ raw_data' = Some(df)
          /\ \E output_file \in BOOLEAN :
                excel_out' = IF output_file THEN Some(Workbook(summary, overall, df))
                             ELSE excel_out
    /\ dialog' = "Success"
    /\ UNCHANGED <<input_file, toolVars>>

process_data == ProcessDataError \/ ProcessDataDone

Next == process_data

Spec == Init /\ [][Next]_vars

SpecClock == InitClock /\ [][Next]_vars

(* ------------------------- the dialog sequence ------------------------ *)

\* browse_file: the file dialog returns a path, which stands for the
\* workbook stored there, or an empty string when it is cancelled.
AppRows ==
    { Row(<<DateCell("iso", Mar01), TimeCell(12, 30, 0)>>,
          <<Whole(40), Whole(62), Whole(35), Whole(30)>>),
      Row(<<DateCell("iso", Mar02), TimeCell(6, 59, 59)>>,
          <<Whole(50), Whole(70), Whole(30), Whole(33)>>) }

Browse(sheets) ==
    /\ \E file_path \in {None} \cup {Some(s) : s \in sheets} :
          input_file' = IF file_path # None THEN file_path ELSE input_file
    /\ UNCHANGED <<latest_summary, latest_overall, raw_data, excel_out, dialog, toolVars>>

browse_file == Browse(Sheets(AppRows, MaxAppRows))

\* process_data whose results are stored and whose export then raises
\* (pd.ExcelWriter or to_excel on the chosen output file): the except clause
\* shows the error dialog, the three attributes keep the new results.
ProcessDataExportError ==
    /\ ~Raises
    /\ LET df1 == Parsed(input_file[1])
           df == WithPeriodLden(df1)
       IN /\ latest_overall' = Some(overall_values(df))
          /\ latest_summary' = Some(daily_summary_df(df1))
          /\ raw_data' = Some(df)
    /\ dialog' = "Processing Error"
    /\ UNCHANGED <<input_file, excel_out, toolVars>>

InitApp == InitWith({})

NextApp == browse_file \/ ProcessDataError \/ ProcessDataDone \/ ProcessDataExportError

SpecApp == InitApp /\ [][NextApp]_vars

(* ------------------------------ the buttons --------------------------- *)

\* latest_summary is None or latest_summary.empty
NoSummary == IF latest_summary = None THEN TRUE ELSE empty(latest_summary[1])

\* col in latest_summary.columns, for a summary with at least one row.
HasColumn(col) == col \in DOMAIN latest_summary[1][1]

\* What the buttons leave alone.
buttonFrame == <<input_file, latest_overall, raw_data, excel_out,
                 nth_call, nth_ret, curve_vars, text_boxes, output, ax,
                 self_df, self_summary, self_text, self_ax, exported>>

\* generate_pdf_report: the warning without stored rows; else, when the
\* save dialog named a file (a cancelled dialog changes nothing), the report
\* is built from latest_overall and latest_summary, or building it raises
\* and the error box is shown.
generate_pdf_report ==
    /\ IF NoSummary
       THEN /\ dialog' = "Report: No summary data available. Please process a file first."
            /\ UNCHANGED effect
       ELSE \E built \in BOOLEAN :
               IF built
               THEN /\ effect' = Some([kind |-> "pdf", overall |-> latest_overall[1],
                                       summary |-> latest_summary[1]])
                    /\ dialog' = "Report: PDF Report generated successfully"
               ELSE /\ dialog' = "Report Error"
                    /\ UNCHANGED effect
    /\ UNCHANGED <<latest_summary, buttonFrame>>

\* store_summary_to_db without the test of latest_summary: whatever is
\* there is handed to the database.
store_summary_to_db_always ==
    /\ effect' = Some([kind |-> "database", summary |-> latest_summary])
    /\ dialog' = "Database: Data stored in the database successfully."
    /\ UNCHANGED <<latest_summary, buttonFrame>>

\* store_summary_to_db: the warning when nothing was stored; else
\* store_to_database appends the summary to the table, or raises and shows
\* the error box.
store_summary_to_db ==
    /\ IF latest_summary = None
       THEN /\ dialog' = "Database: No summary data available. Please process a file first."
            /\ UNCHANGED effect
       ELSE \E stored \in BOOLEAN :
               IF stored
               THEN /\ effect' = Some([kind |-> "database", summary |-> latest_summary[1]])
                    /\ dialog' = "Database: Data stored in the database successfully."
               ELSE /\ dialog' = "Database Error"
                    /\ UNCHANGED effect
    /\ UNCHANGED <<latest_summary, buttonFrame>>

\* The answers of the two askfloat dialogs of run_mapping.
Latitudes == {None, Some(Whole(53))}

Longitudes == {None, Some(Whole(-1))}

\* show_map_with_folium(latitudes, longitudes, labels, values) for the
\* summary df: the map that is saved and opened.
MapOf(df) ==
    [kind |-> "map",
     latitudes |-> Column(df, "Latitude"),
     longitudes |-> Column(df, "Longitude"),
     labels |-> Column(df, "Date"),
     values |-> Column(df, "LAeq Day")]

\* run_mapping: the warning without stored rows; with the two columns the
\* map is shown; without them the user is asked (answering no changes
\* nothing) for one latitude and one longitude, which are written to every
\* row of latest_summary before the map is shown, or the entry is
\* cancelled.
run_mapping ==
    /\ IF NoSummary
       THEN /\ dialog' = "Mapping: No processed data available. Please process a file first."
            /\ UNCHANGED <<effect, latest_summary>>
       ELSE IF HasColumn("Latitude") /\ HasColumn("Longitude")
       THEN /\ effect' = Some(MapOf(latest_summary[1]))
            /\ UNCHANGED <<dialog, latest_summary>>
       ELSE \E lat \in Latitudes, lon \in Longitudes :
               IF lat # None /\ lon # None
               THEN LET df == [i \in 1..Len(latest_summary[1]) |->
                                  latest_summary[1][i] @@ ("Latitude" :> lat[1])
                                                       @@ ("Longitude" :> lon[1])]
                    IN /\ latest_summary' = Some(df)
                       /\ effect' = Some(MapOf(df))
                       /\ UNCHANGED dialog
               ELSE /\ dialog' = "Mapping: Latitude/Longitude entry was cancelled."
                    /\ UNCHANGED <<effect, latest_summary>>
    /\ UNCHANGED buttonFrame

\* plt.show() of a figure with the given title.
Figure(title) == [kind |-> "figure", title |-> title]

\* plot_overlaid_levels
plot_overlaid_levels ==
    /\ IF NoSummary
       THEN /\ dialog' = "Graph: Please process a file first."
            /\ UNCHANGED effect
       ELSE /\ effect' = Some(Figure("Daily Noise Levels"))
            /\ UNCHANGED dialog
    /\ UNCHANGED <<latest_summary, buttonFrame>>

\* plot_histograms
plot_histograms ==
    /\ IF NoSummary
       THEN /\ dialog' = "Graph: Please process a file first."
            /\ UNCHANGED effect
       ELSE IF ~\E c \in {"LAeq Day", "LAmax Day", "LA90 Day"} : HasColumn(c)
       THEN /\ dialog' = "Graph: No suitable columns for histogram."
            /\ UNCHANGED effect
       ELSE /\ effect' = Some(Figure("Distribution of Noise Levels (Day)"))
            /\ UNCHANGED dialog
    /\ UNCHANGED <<latest_summary, buttonFrame>>

\* plot_long_term_trend
plot_long_term_trend ==
    /\ IF NoSummary
       THEN /\ dialog' = "Graph: Please process a file first."
            /\ UNCHANGED effect
       ELSE IF ~HasColumn("Date") \/ ~HasColumn("LAeq Day")
       THEN /\ dialog' = "Graph: Required columns missing."
            /\ UNCHANGED effect
       ELSE /\ effect' = Some(Figure("Long-term Trend"))
            /\ UNCHANGED dialog
    /\ UNCHANGED <<latest_summary, buttonFrame>>

\* The answers of the askfloat dialog of detect_events.
Thresholds == {None, Some(Whole(60)), Some(Whole(65))}

\* detect_events: the warning without stored rows; else the rows whose
\* LAmax Day lies above the threshold the user enters are named in an info
\* box (a cancelled entry changes nothing, and so does the comparison of a
\* "No Data" cell with the threshold, which raises TypeError out of the
\* handler).
detect_events ==
    /\ IF NoSummary
       THEN dialog' = "Events: Please process a file first."
       ELSE IF ~HasColumn("LAmax Day")
       THEN dialog' = "Events: LAmax Day column missing."
       ELSE \E threshold \in Thresholds \ {None} :
               /\ \A i \in 1..Len(latest_summary[1]) :
                     latest_summary[1][i]["LAmax Day"] # NoData
               /\ LET exceed == SelectSeq(latest_summary[1],
                                          LAMBDA r : ~QLe(r["LAmax Day"], threshold[1]))
                  IN dialog' = IF empty(exceed) THEN "Events: No exceedances detected."
                               ELSE "Events: Exceedances on"
    /\ UNCHANGED <<effect, latest_summary, buttonFrame>>

\* The columns of the daily summary and the two run_mapping adds; none of
\* them ends with 'Hz'.
SummaryColumns ==
    {"Date", "LAeq Day", "LAeq Night", "LAmax Day", "LAmax Night",
     "LA90 Day", "LA90 Night", "LAmin Day", "LAmin Night",
     "Latitude", "Longitude"}

\* plot_octave_band: freq_cols are the columns that end with 'Hz'.
plot_octave_band ==
    /\ IF NoSummary
       THEN /\ dialog' = "Spectrum: Please process a file first."
            /\ UNCHANGED effect
       ELSE IF DOMAIN latest_summary[1][1] \ SummaryColumns = {}
       THEN /\ dialog' = "Spectrum: No octave-band data found."
            /\ UNCHANGED effect
       ELSE /\ effect' = Some(Figure("Average Octave Band Spectrum"))
            /\ UNCHANGED dialog
    /\ UNCHANGED <<latest_summary, buttonFrame>>

\* plot_time_series: works on raw_data; the rows without a DateTime are
\* dropped.
plot_time_series ==
    /\ IF (IF raw_data = None THEN TRUE ELSE empty(raw_data[1]))
       THEN /\ dialog' = "Graph: Please process a file first."
            /\ UNCHANGED effect
       ELSE IF empty(SelectSeq(raw_data[1], LAMBDA r : ~isnull(r.DateTime)))
       THEN /\ dialog' = "Graph: No DateTime information available."
            /\ UNCHANGED effect
       ELSE /\ effect' = Some(Figure("Noise Levels Over Time"))
            /\ UNCHANGED dialog
    /\ UNCHANGED <<latest_summary, buttonFrame>>

\* The workbooks of the button specification: one reading in the day, and
\* one reading whose Date cell is blank, which leaves the daily summary
\* without rows.
ButtonSheets ==
    { <<Row(<<DateCell("iso", Mar01), TimeCell(12, 30, 0)>>,
            <<Whole(40), Whole(62), Whole(35), Whole(30)>>)>>,
      <<Row(<<BlankDate, TimeCell(12, 30, 0)>>,
            <<Whole(50), Whole(70), Whole(30), Whole(33)>>)>> }

browse_buttons == Browse(ButtonSheets)

NextButtons ==
    \/ browse_buttons
    \/ ProcessDataError
    \/ ProcessDataDone
    \/ ProcessDataExportError
    \/ generate_pdf_report
    \/ store_summary_to_db
    \/ run_mapping
    \/ plot_overlaid_levels
    \/ plot_histograms
    \/ plot_long_term_trend
    \/ detect_events
    \/ plot_octave_band
    \/ plot_time_series

SpecButtons == InitApp /\ [][NextButtons]_vars

(* ----------------------------- NoiseMetricsApp ------------------------ *)

\* A CSV file: its header and its rows.  An Hour cell is the text of a
\* timestamp, a Level_dB cell a number.
HourCell(ord, h) == [k |-> "iso", ord |-> ord, hms |-> time(h, 0, 0)]

Csv(columns, rows) == [columns |-> columns, rows |-> rows]

\* load_data: pd.read_csv, then df['Hour'] = pd.to_datetime(df['Hour']);
\* df['Hour'] raises KeyError on a file without that column.
LoadRaises(csv) == "Hour" \notin csv.columns

load_data(csv) ==
    Csv(csv.columns,
        [i \in 1..Len(csv.rows) |->
            [c \in DOMAIN csv.rows[i] |->
                IF c = "Hour" THEN Timestamp(csv.rows[i][c].ord, csv.rows[i][c].hms)
                ELSE csv.rows[i][c]]])

\* noise_metrics.classify_period: by the hour of the timestamp.
period_of_hour(ts) ==
    LET h == ts.hms[1]
    IN IF 7 <= h /\ h < 19 THEN "day"
       ELSE IF 19 <= h /\ h < 23 THEN "evening"
       ELSE "night"

\* calculate_daily_metrics.  The body between its first and its last
\* statements is not part of the source file; what is there builds one row
\* {'Date', 'LAeq', 'Lden'} per date.  The function reads the Level_dB
\* column that load_data's docstring requires and load_data itself never
\* touches, and raises KeyError on a frame without it.  LAeq and Lden of a
\* date are kept as the levels, with their periods, they are computed from.
MetricsRaise(df) == "Level_dB" \notin df.columns

calculate_daily_metrics(df) ==
    LET dates == SortedSeq({df.rows[i].Hour.ord : i \in 1..Len(df.rows)})
        group(d) == SelectSeq(df.rows, LAMBDA r : r.Hour.ord = d)
    IN [k \in 1..Len(dates) |->
           [Date |-> Date(dates[k]),
            LAeq |-> [t |-> "LAeq",
                      of |-> [i \in 1..Len(group(dates[k])) |-> group(dates[k])[i].Level_dB]],
            Lden |-> [t |-> "Lden",
                      of |-> [i \in 1..Len(group(dates[k])) |->
                                 <<period_of_hour(group(dates[k])[i].Hour),
                                   group(dates[k])[i].Level_dB>>]]]]

\* What the NoiseMetricsApp buttons leave alone.
metricsFrame == <<appVars, nth_call, nth_ret, curve_vars, text_boxes, output, ax, effect>>

\* The files the open dialog of _load can return.
CsvFiles ==
    { Csv({"Hour", "Level_dB"},
          << [Hour |-> HourCell(Mar01, 12), Level_dB |-> Whole(50)],
             [Hour |-> HourCell(Mar01, 20), Level_dB |-> Whole(60)] >>),
      Csv({"Hour", "Level_dB"},
          << [Hour |-> HourCell(Mar02, 3), Level_dB |-> Whole(40)] >>),
      Csv({"Hour", "Level_dB"}, <<>>),
      Csv({"Hour"}, << [Hour |-> HourCell(Mar01, 12)] >>),
      Csv({"Level_dB"}, << [Level_dB |-> Whole(50)] >>) }

\* _load with a file chosen (a cancelled dialog returns at once): whatever
\* raises inside the try block ends in the error box, with the assignments
\* made before it kept.  _update_plot clears the axes before it reads
\* summary['Date'], which raises KeyError on a summary without rows.
_load ==
    /\ \E csv \in CsvFiles :
          IF LoadRaises(csv)
          THEN /\ dialog' = "Error"
               /\ UNCHANGED <<self_df, self_summary, self_text, self_ax>>
          ELSE \E df \in {load_data(csv)} :
                  /\ self_df' = Some(df)
                  /\ IF MetricsRaise(df)
                     THEN /\ dialog' = "Error"
                          /\ UNCHANGED <<self_summary, self_text, self_ax>>
                     ELSE \E summary \in {calculate_daily_metrics(df)} :
                             /\ self_summary' = Some(summary)
                             /\ IF empty(summary)
                                THEN /\ self_ax' = <<>>
                                     /\ dialog' = "Error"
                                     /\ UNCHANGED self_text
                                ELSE /\ self_ax' = summary
                                     /\ self_text' = summary
                                     /\ UNCHANGED dialog
    /\ UNCHANGED <<exported, metricsFrame>>

\* _template with a file named: the blank template is written.
_template ==
    /\ dialog' = "Template"
    /\ UNCHANGED <<self_df, self_summary, self_text, self_ax, exported, metricsFrame>>

\* _export: the error box without data; else, with a file named,
\* export_results writes the hourly data and the summary side by side.
_export ==
    /\ IF self_df = None \/ self_summary = None
       THEN /\ dialog' = "No data"
            /\ UNCHANGED exported
       ELSE /\ exported' = Some([HourlyData |-> self_df[1], DailyMetrics |-> self_summary[1]])
            /\ dialog' = "Exported"
    /\ UNCHANGED <<self_df, self_summary, self_text, self_ax, metricsFrame>>

InitMetrics == InitWith({})

NextMetrics == _load \/ _template \/ _export

SpecMetrics == InitMetrics /\ [][NextMetrics]_vars

(* -------------------------- energy averages -------------------------- *)

\* Rows of the three Lden periods that differ in LAeq only: Day samples at
\* 40 dB, 50 dB and without LAeq on the first date, an Evening sample on
\* the second date, Night samples before 07:00 that belong to the first.
EnergyRow(stamp, laeq) == Row(stamp, <<laeq, Whole(62), Whole(35), Whole(30)>>)

EnergyRows ==
    {EnergyRow(<<DateCell("iso", Mar01), TimeCell(12, 30, 0)>>, x) : x \in {Whole(40), Whole(50), NaN}}
    \cup {EnergyRow(<<DateCell("iso", Mar02), TimeCell(19, 0, 0)>>, Whole(50))}
    \cup {EnergyRow(<<DateCell("iso", Mar02), TimeCell(6, 59, 59)>>, x) : x \in {Whole(40), Whole(50)}}

InitEnergy == InitWith(Sheets(EnergyRows, MaxEnergyRows))

SpecEnergy == InitEnergy /\ [][Next]_vars

(* ---------------------- partly missing levels ------------------------ *)

\* Level cells <<LAeq, LAmax, LA90, LAmin>> where single fields are missing:
\* two complete measurements with different LA90, one that lacks only LAeq
\* and one that holds only LAeq.
LevelProfiles ==
    { <<Whole(40), Whole(62), Whole(70), Whole(30)>>,
      <<Whole(50), Whole(70), Whole(65), Whole(33)>>,
      <<NaN, Whole(66), Whole(70), Whole(31)>>,
      <<Whole(60), NaN, NaN, NaN>> }

\* A Daytime sample on each of two dates and a Night-time sample before
\* 07:00, which belongs to the first date.
LevelStamps ==
    { <<DateCell("iso", Mar01), TimeCell(12, 30, 0)>>,
      <<DateCell("iso", Mar02), TimeCell(12, 30, 0)>>,
      <<DateCell("iso", Mar02), TimeCell(6, 59, 59)>> }

LevelRows == {Row(st, lv) : st \in LevelStamps, lv \in LevelProfiles}

InitLevels == InitWith(Sheets(LevelRows, MaxLevelRows))

SpecLevels == InitLevels /\ [][Next]_vars

(* --------------------------- long workbooks --------------------------- *)

\* Workbooks around the tenth rank: a block of nine complete measurements of
\* one period, in no particular order of level, followed by up to MaxExtra
\* rows of either period whose LAmax / LA90 lie below or above the whole
\* block or are missing.
BlockLAmax == <<65, 61, 69, 63, 67, 62, 68, 64, 66>>

BlockLA90 == <<35, 31, 39, 33, 37, 32, 38, 34, 36>>

DayStamp == <<DateCell("iso", Mar01), TimeCell(12, 30, 0)>>

NightStamp == <<DateCell("iso", Mar02), TimeCell(6, 59, 59)>>

Block(stamp) ==
    [i \in 1..Len(BlockLAmax) |->
        Row(stamp, <<Whole(40), Whole(BlockLAmax[i]), Whole(BlockLA90[i]), Whole(30)>>)]

ExtraProfiles ==
    { <<Whole(40), Whole(60), Whole(40), Whole(30)>>,
      <<Whole(50), Whole(70), Whole(30), Whole(33)>>,
      <<NaN, NaN, NaN, NaN>> }

ExtraRows == {Row(st, lv) : st \in {DayStamp, NightStamp}, lv \in ExtraProfiles}

LongSheets ==
    {Block(st) \o extra : st \in {DayStamp, NightStamp}, extra \in Sheets(ExtraRows, MaxExtra)}

InitTenth == InitWith(LongSheets)

SpecTenth == InitTenth /\ [][Next]_vars

(* ------------------- the rank helpers called directly ----------------- *)

\* The module-level helpers nth_highest and nth_lowest applied to a series
\* and a 1-based rank: nth_call holds the arguments, nth_ret the two values
\* returned.  The series are short, hold repeated and missing values.
NthLevels == {Whole(75), Whole(80), Whole(90), NaN}

NthSeries == UNION {[1..k -> NthLevels] : k \in 0..MaxSeries}

InitNth ==
    /\ input_file = None
    /\ latest_summary = None
    /\ latest_overall = None
    /\ raw_data = None
    /\ excel_out = None
    /\ dialog = ""
    /\ nth_call \in {Some([series |-> s, n |-> n]) : s \in NthSeries, n \in 1..MaxRank}
    /\ nth_ret = None
    /\ NRBuilt
    /\ SideIdle

call_nth ==
    /\ nth_call # None
    /\ nth_ret = None
    /\ nth_ret' = Some([highest |-> nth_highest(nth_call[1].series, nth_call[1].n),
                        lowest |-> nth_lowest(nth_call[1].series, nth_call[1].n)])
    /\ UNCHANGED <<appVars, dialog, nth_call, curve_vars, text_boxes, output, ax, sideVars>>

NextNth == call_nth

SpecNth == InitNth /\ [][NextNth]_vars

(* ------------------------------ the NR tool --------------------------- *)

\* A token of a pasted line: text that float() accepts, with its value, or
\* text that float() rejects.  A line is a sequence of tokens, the content
\* of a text box a sequence of lines.
Number(q) == [k |-> "num", v |-> q]

Junk == [k |-> "bad"]

QSub(a, b) == QAdd(a, QMul(Whole(-1), b))

\* math.ceil of a rational.
Ceil(q) == -((-q.n) \div q.d)

\* round(q, 1): to the nearest tenth, a tie to the even tenth.
round1(q) ==
    LET f == (10 * q.n) \div q.d
        r == (10 * q.n) % q.d
    IN IF 2 * r < q.d THEN Q(f, 10)
       ELSE IF 2 * r > q.d THEN Q(f + 1, 10)
       ELSE IF f % 2 = 0 THEN Q(f, 10) ELSE Q(f + 1, 10)

\* curve_items: <<n, levels>> of every curve, sorted by n.
curve_items ==
    LET ns == SortedSeq(DOMAIN NR_CURVES)
    IN [i \in 1..Len(ns) |-> <<ns[i], NR_CURVES[ns[i]]>>]

\* rating_band whose extrapolation above the highest curve starts from the
\* curve below it (n1 for n2).
band_rating_n1(idx, measurement) ==
    LET last == Len(curve_items)
        n(i) == curve_items[i][1]
        v(i) == Whole(curve_items[i][2][idx])
        slope(i) == Q(n(i + 1) - n(i), curve_items[i + 1][2][idx] - curve_items[i][2][idx])
        hits == {i \in 1..(last - 1) : QLe(v(i), measurement) /\ QLe(measurement, v(i + 1))}
    IN IF hits # {}
       THEN LET i == CHOOSE j \in hits : \A h \in hits : j <= h
            IN QAdd(Whole(n(i)), QMul(QSub(measurement, v(i)), slope(i)))
       ELSE IF ~QLe(v(1), measurement)
       THEN QSub(Whole(n(1)), QMul(QSub(v(1), measurement), slope(1)))
       ELSE QAdd(Whole(n(last - 1)), QMul(QSub(measurement, v(last)), slope(last - 1)))

\* rating_band of the band idx: interpolated inside the first pair of
\* adjacent curves whose levels enclose the measurement, extrapolated from
\* the two lowest curves below them and from the two highest otherwise.
band_rating(idx, measurement) ==
    LET last == Len(curve_items)
        n(i) == curve_items[i][1]
        v(i) == Whole(curve_items[i][2][idx])
        slope(i) == Q(n(i + 1) - n(i), curve_items[i + 1][2][idx] - curve_items[i][2][idx])
        hits == {i \in 1..(last - 1) : QLe(v(i), measurement) /\ QLe(measurement, v(i + 1))}
    IN IF hits # {}
       THEN LET i == CHOOSE j \in hits : \A h \in hits : j <= h
            IN QAdd(Whole(n(i)), QMul(QSub(measurement, v(i)), slope(i)))
       ELSE IF ~QLe(v(1), measurement)
       THEN QSub(Whole(n(1)), QMul(QSub(v(1), measurement), slope(1)))
       ELSE QAdd(Whole(n(last)), QMul(QSub(measurement, v(last)), slope(last - 1)))

\* max of a non-empty sequence of rationals.
MaxQ(qs) == qs[CHOOSE i \in 1..Len(qs) : \A j \in 1..Len(qs) : QLe(qs[j], qs[i])]

\* _nr_rating whose comparison curve is the rating rounded down to a
\* multiple of 5 (floor for ceil).
nr_rating_floor(values) ==
    LET band_ratings == [idx \in 1..Len(values) |-> band_rating(idx, values[idx])]
        rating == MaxQ(band_ratings)
        down == ((rating.n \div rating.d) \div 5) * 5
        discrete == IF down > 50 THEN 50 ELSE IF down < 20 THEN 20 ELSE down
        ref == NR_CURVES[discrete]
        above == SelectSeq([i \in 1..Len(values) |-> i],
                           LAMBDA i : ~QLe(values[i], Whole(ref[i])))
    IN <<round1(rating), [j \in 1..Len(above) |-> FREQUENCIES[above[j]]]>>

\* _nr_rating: <<rating rounded to one decimal, frequencies whose level lies
\* above the curve the rating is rounded up to>>.
nr_rating(values) ==
    LET band_ratings == [idx \in 1..Len(values) |-> band_rating(idx, values[idx])]
        rating == MaxQ(band_ratings)
        up == Ceil(QMul(rating, Q(1, 5))) * 5
        discrete == IF up > 50 THEN 50 ELSE IF up < 20 THEN 20 ELSE up
        ref == NR_CURVES[discrete]
        above == SelectSeq([i \in 1..Len(values) |-> i],
                           LAMBDA i : ~QLe(values[i], Whole(ref[i])))
    IN <<round1(rating), [j \in 1..Len(above) |-> FREQUENCIES[above[j]]]>>

\* _read_inputs: the non-blank lines of a box; a line raises ValueError when
\* it does not hold eight tokens or holds one that float() rejects, a box
\* when it holds no line.
lines(box) == SelectSeq(box, LAMBDA ln : ln # <<>>)

LineRaises(line) ==
    \/ Len(line) # Len(FREQUENCIES)
    \/ \E j \in 1..Len(line) : line[j].k # "num"

ReadInputsRaises ==
    \E cond \in DOMAIN text_boxes :
        \/ lines(text_boxes[cond]) = <<>>
        \/ \E i \in 1..Len(lines(text_boxes[cond])) : LineRaises(lines(text_boxes[cond])[i])

\* measurements: condition -> list of measurement sets.
read_inputs ==
    [cond \in DOMAIN text_boxes |->
        LET ls == lines(text_boxes[cond])
        IN [i \in 1..Len(ls) |-> [j \in 1..Len(ls[i]) |-> ls[i][j].v]]]

\* selected_curves, in the order of NR_CURVES.
selected_curves == SelectSeq(SortedSeq(DOMAIN NR_CURVES), LAMBDA c : curve_vars[c])

\* generate when _read_inputs raises or no curve is ticked: the error box.
GenerateInputError ==
    /\ ReadInputsRaises \/ selected_curves = <<>>
    /\ dialog' = "Input Error"
    /\ UNCHANGED <<appVars, nth_call, nth_ret, curve_vars, text_boxes, output, ax, sideVars>>

\* The label of a measurement set and its plotted line and result.
LabelOf(cond, sets, idx) == IF Len(sets) > 1 THEN <<cond, idx>> ELSE <<cond>>

ResultsOf(cond, sets) ==
    [idx \in 1..Len(sets) |->
        [label |-> LabelOf(cond, sets, idx),
         rating |-> nr_rating(sets[idx])[1],
         exceeded |-> nr_rating(sets[idx])[2]]]

\* generate run to its end: the ticked curves and every measurement set are
\* plotted, the output box holds one result line per measurement set.
GenerateDone ==
    /\ ~ReadInputsRaises
    /\ selected_curves # <<>>
    /\ \E measurements \in {read_inputs} :
          \E results \in {ResultsOf("Low", measurements["Low"])
                            \o ResultsOf("Medium", measurements["Medium"])
                            \o ResultsOf("High", measurements["High"])} :
             /\ ax' = [i \in 1..Len(selected_curves) |-> <<"NR", selected_curves[i]>>]
                      \o [i \in 1..Len(results) |-> results[i].label]
             /\ output' = results
    /\ UNCHANGED <<appVars, dialog, nth_call, nth_ret, curve_vars, text_boxes, sideVars>>

generate == GenerateInputError \/ GenerateDone

\* DataProcessorApp.__init__.
AppBuilt ==
    /\ input_file = None
    /\ latest_summary = None
    /\ latest_overall = None
    /\ raw_data = None
    /\ excel_out = None

\* The NR tool with ticks and pasted text, before Generate is pressed.
InitNRWith(ticks, boxes) ==
    /\ AppBuilt
    /\ dialog = ""
    /\ NthIdle
    /\ SideIdle
    /\ curve_vars \in ticks
    /\ text_boxes \in boxes
    /\ output = <<>>
    /\ ax = <<>>

\* The line that holds the eight levels of a spectrum.
LineOf(values) == [j \in 1..Len(values) |-> Number(values[j])]

CurveLevels(c) == [idx \in 1..Len(NR_CURVES[c]) |-> Whole(NR_CURVES[c][idx])]

\* Spectra around the curves, in half decibels: curve c lowered by u half
\* dB in every band, band i moved by a and the next band by b half dB.
Shifted(c, u, i, a, b) ==
    [idx \in 1..Len(NR_CURVES[c]) |->
        Q(2 * NR_CURVES[c][idx] - u
            + (IF idx = i THEN a ELSE 0)
            + (IF idx = (i % Len(NR_CURVES[c])) + 1 THEN b ELSE 0), 2)]

Spectra ==
    {Shifted(c, u, i, a, b) : c \in DOMAIN NR_CURVES, u \in {0, 1},
                              i \in 1..Len(FREQUENCIES),
                              a \in (-MaxShift)..MaxShift, b \in {0, MaxShift}}

\* One spectrum pasted for Low, the NR20 curve itself for Medium and High.
RatingBoxes ==
    {[cond \in {"Low", "Medium", "High"} |->
         IF cond = "Low" THEN <<LineOf(sp)>> ELSE <<LineOf(CurveLevels(20))>>]
     : sp \in Spectra}

\* What else the user can paste: nothing, the NR40 curve, the NR40 curve
\* and a second set above NR50 in two bands, a blank line before the data,
\* a line of seven values, a line with a token that is no number.
PastedTexts ==
    { <<>>,
      <<LineOf(CurveLevels(40))>>,
      <<LineOf(CurveLevels(40)), LineOf(Shifted(50, 1, 1, MaxShift, MaxShift))>>,
      <<<<>>, LineOf(CurveLevels(40))>>,
      <<Tail(LineOf(CurveLevels(40)))>>,
      <<<<Junk>> \o Tail(LineOf(CurveLevels(40)))>> }

PastedBoxes ==
    {[cond \in {"Low", "Medium", "High"} |->
         IF cond = "Low" THEN low ELSE IF cond = "Medium" THEN medium ELSE high]
     : low \in PastedTexts, medium, high \in {<<>>, <<LineOf(CurveLevels(20))>>}}

\* The ticks of at most n curves.
Ticks(n) ==
    {[c \in DOMAIN NR_CURVES |-> c \in sel] :
        sel \in {t \in SUBSET DOMAIN NR_CURVES : Cardinality(t) <= n}}

InitNR ==
    \/ InitNRWith({[c \in DOMAIN NR_CURVES |-> c = 35]}, RatingBoxes)
    \/ InitNRWith(Ticks(MaxSelected), PastedBoxes)

NextNR == generate

SpecNR == InitNR /\ [][NextNR]_vars

(* ------------------------------- claims ------------------------------- *)

\* What the claims read off the state: the workbook that was processed, the
\* stored frame and results, and the clock time of a sheet row in seconds.
Processed == dialog = "Success"

Sheet == input_file[1]

Frame == raw_data[1]

Summary == latest_summary[1]

Overall == latest_overall[1]

ValidStamp(r) == r.Date.k \in {"mdY", "iso"} /\ r.Time.k = "time"

Secs(r) == r.Time.hms[1] * 3600 + r.Time.hms[2] * 60 + r.Time.hms[3]

IsStamp(r, ord, h, m, s) ==
    ValidStamp(r) /\ r.Date.ord = ord /\ r.Time.hms = <<h, m, s>>

\* C1: every row's reporting date follows the 07:00 rollover rule: a valid
\* timestamp strictly before 07:00:00 gets the calendar date minus one day,
\* any other valid timestamp (07:00:00 included) its own calendar date, an
\* invalid timestamp NaT; 2024-03-02 06:59:59 buckets to 2024-03-01 and
\* 2024-03-02 07:00:00 to 2024-03-02.
C1_ReportingDate ==
    Processed =>
        \A i \in 1..Len(Sheet) :
            LET r == Sheet[i]
                got == Frame[i].DateOnly
            IN /\ ~ValidStamp(r) => got = NaT
               /\ ValidStamp(r) /\ Secs(r) < 7 * 3600 => got = Date(r.Date.ord - 1)
               /\ ValidStamp(r) /\ Secs(r) >= 7 * 3600 => got = Date(r.Date.ord)
               /\ IsStamp(r, Mar02, 6, 59, 59) => got = Date(Mar01)
               /\ IsStamp(r, Mar02, 7, 0, 0) => got = Date(Mar02)

\* C1 witness: a processed workbook holding 2024-03-02 06:59:59 and
\* 2024-03-02 07:00:00, bucketed to different reporting dates.
C1_Witness ==
    /\ Processed
    /\ \E i, j \in 1..Len(Sheet) :
          /\ IsStamp(Sheet[i], Mar02, 6, 59, 59) /\ Frame[i].DateOnly = Date(Mar01)
          /\ IsStamp(Sheet[j], Mar02, 7, 0, 0) /\ Frame[j].DateOnly = Date(Mar02)

\* C2: the simple period of a row is "" (Unknown) for an invalid timestamp,
\* Night-time exactly when the clock time is >= 23:00:00 or < 07:00:00 and
\* Daytime otherwise; 23:00:00 is Night-time and 07:00:00 is Daytime.
C2_SimplePeriod ==
    Processed =>
        \A i \in 1..Len(Sheet) :
            LET r == Sheet[i]
                got == Frame[i].Period
            IN /\ ~ValidStamp(r) => got = ""
               /\ ValidStamp(r) =>
                    /\ got \in {"Night-time", "Daytime"}
                    /\ got = "Night-time" <=> (Secs(r) >= 23 * 3600 \/ Secs(r) < 7 * 3600)
               /\ ValidStamp(r) /\ r.Time.hms = <<23, 0, 0>> => got = "Night-time"
               /\ ValidStamp(r) /\ r.Time.hms = <<7, 0, 0>> => got = "Daytime"

\* C2 witness: a processed workbook with a 23:00:00 row classified
\* Night-time and a 07:00:00 row classified Daytime.
C2_Witness ==
    /\ Processed
    /\ \E i, j \in 1..Len(Sheet) :
          /\ ValidStamp(Sheet[i]) /\ Sheet[i].Time.hms = <<23, 0, 0>>
          /\ Frame[i].Period = "Night-time"
          /\ ValidStamp(Sheet[j]) /\ Sheet[j].Time.hms = <<7, 0, 0>>
          /\ Frame[j].Period = "Daytime"

\* C3: the Lden period of a row is "" (Unknown) for an invalid timestamp, Day
\* for [07:00,19:00), Evening for [19:00,23:00) and Night for every other
\* clock time, so a valid timestamp gets exactly one of Day/Evening/Night.
C3_LdenPeriod ==
    Processed =>
        \A i \in 1..Len(Sheet) :
            LET r == Sheet[i]
                got == Frame[i].Period_lden
            IN /\ ~ValidStamp(r) => got = ""
               /\ ValidStamp(r) =>
                    /\ got \in {"Day", "Evening", "Night"}
                    /\ got = "Day" <=> (7 * 3600 <= Secs(r) /\ Secs(r) < 19 * 3600)
                    /\ got = "Evening" <=> (19 * 3600 <= Secs(r) /\ Secs(r) < 23 * 3600)
                    /\ got = "Night" <=> (Secs(r) >= 23 * 3600 \/ Secs(r) < 7 * 3600)

\* C3 witness: a processed workbook with a 19:00:00 row classified Evening
\* and a 23:00:00 row classified Night.
C3_Witness ==
    /\ Processed
    /\ \E i, j \in 1..Len(Sheet) :
          /\ ValidStamp(Sheet[i]) /\ Sheet[i].Time.hms = <<19, 0, 0>>
          /\ Frame[i].Period_lden = "Evening"
          /\ ValidStamp(Sheet[j]) /\ Sheet[j].Time.hms = <<23, 0, 0>>
          /\ Frame[j].Period_lden = "Night"

\* The reporting day and the periods of a sheet row, from its clock time in
\* seconds.
ReportingDay(r) == IF Secs(r) < 7 * 3600 THEN r.Date.ord - 1 ELSE r.Date.ord

IsDaytime(r) == ValidStamp(r) /\ 7 * 3600 <= Secs(r) /\ Secs(r) < 23 * 3600

IsNightTime(r) == ValidStamp(r) /\ ~IsDaytime(r)

IsEvening(r) == ValidStamp(r) /\ 19 * 3600 <= Secs(r) /\ Secs(r) < 23 * 3600

IsDay(r) == IsDaytime(r) /\ ~IsEvening(r)

HasLAeq(r) == r.LAeq.t = "num"

Numeric(v) == v.t \in {"num", "10log10", "sqrt"}

DayCells == {"LAeq Day", "LAmax Day", "LA90 Day", "LAmin Day"}

NightCells == {"LAeq Night", "LAmax Night", "LA90 Night", "LAmin Night"}

\* C4: the daily summary has exactly one row per distinct reporting date of
\* the valid-timestamp rows, in ascending date order, and a date without
\* Daytime (Night-time) samples still has its row, whose four Day (Night)
\* cells are "No Data".
C4_DailyRows ==
    Processed =>
        LET valid == {i \in 1..Len(Sheet) : ValidStamp(Sheet[i])}
            days == {ReportingDay(Sheet[i]) : i \in valid}
        IN /\ Len(Summary) = Cardinality(days)
           /\ {Summary[k]["Date"].ord : k \in 1..Len(Summary)} = days
           /\ \A k \in 1..Len(Summary) - 1 :
                 Summary[k]["Date"].ord < Summary[k + 1]["Date"].ord
           /\ \A k \in 1..Len(Summary) :
                 LET d == Summary[k]["Date"].ord
                     on(i) == ReportingDay(Sheet[i]) = d
                 IN /\ (~\E i \in valid : on(i) /\ IsDaytime(Sheet[i]))
                          => \A c \in DayCells : Summary[k][c] = NoData
                    /\ (~\E i \in valid : on(i) /\ IsNightTime(Sheet[i]))
                          => \A c \in NightCells : Summary[k][c] = NoData

\* C4 witness: a workbook whose first row belongs to a later reporting date
\* than its second row; the summary has two rows, the earlier date with
\* "No Data" Day cells and numeric Night cells, the later date the reverse.
C4_Witness ==
    /\ Processed
    /\ Len(Sheet) >= 2
    /\ ValidStamp(Sheet[1]) /\ ValidStamp(Sheet[2])
    /\ ReportingDay(Sheet[1]) > ReportingDay(Sheet[2])
    /\ Len(Summary) = 2
    /\ \A c \in DayCells : Summary[1][c] = NoData /\ Numeric(Summary[2][c])
    /\ \A c \in NightCells : Numeric(Summary[1][c]) /\ Summary[2][c] = NoData

OverallKeys ==
    { "Overall LAeq Day", "Overall LAeq Night", "Overall LAmax Day", "Overall LAmax Night",
      "Overall LA90 Day", "Overall LA90 Night", "Overall LAmin Day", "Overall LAmin Night",
      "10th Highest Lmax Day", "10th Highest Lmax Night",
      "10th Lowest L90 Day", "10th Lowest L90 Night",
      "Overall L10 Day", "Overall L50 Day", "Overall L95 Day",
      "Overall L10 Night", "Overall L50 Night", "Overall L95 Night",
      "Lden (Day-Evening-Night)", "Ldn (Day-Night)",
      "Overall LAeq Std Day", "Overall LAeq Std Night" }

NightKeys ==
    { "Overall LAeq Night", "Overall LAmax Night", "Overall LA90 Night",
      "Overall LAmin Night", "10th Highest Lmax Night", "10th Lowest L90 Night",
      "Overall L10 Night", "Overall L50 Night", "Overall L95 Night",
      "Overall LAeq Std Night" }

\* C5: for any input set of measurements, the empty one included, the
\* computation completes without raising and the overall metrics map holds
\* every expected key, each a real number or "No Data".
C5_AlwaysComplete ==
    (input_file # None /\ dialog # "") =>
        /\ Processed
        /\ DOMAIN Overall = OverallKeys
        /\ \A k \in OverallKeys : Numeric(Overall[k]) \/ Overall[k] = NoData

C7_LdenNumeric ==
    Processed =>
        LET has(P(_)) == \E i \in 1..Len(Sheet) : P(Sheet[i]) /\ HasLAeq(Sheet[i])
            all3 == has(IsDay) /\ has(IsEvening) /\ has(IsNightTime)
            v == Overall["Lden (Day-Evening-Night)"]
        IN /\ Numeric(v) <=> all3
           /\ ~all3 => v = NoData

\* C7 witness: Lden is numeric for a workbook with a Day, an Evening and a
\* Night sample.
C7_Witness ==
    /\ Processed
    /\ \E i, j, k \in 1..Len(Sheet) :
          /\ IsDay(Sheet[i]) /\ IsEvening(Sheet[j]) /\ IsNightTime(Sheet[k])
          /\ HasLAeq(Sheet[i]) /\ HasLAeq(Sheet[j]) /\ HasLAeq(Sheet[k])
    /\ Numeric(Overall["Lden (Day-Evening-Night)"])

\* C8: Ldn is numeric if and only if the Daytime and the Night-time subsets
\* each hold a non-missing LAeq, and "No Data" otherwise; it does not need an
\* Evening sample.
C8_LdnNumeric ==
    Processed =>
        LET has(P(_)) == \E i \in 1..Len(Sheet) : P(Sheet[i]) /\ HasLAeq(Sheet[i])
            both == has(IsDaytime) /\ has(IsNightTime)
            v == Overall["Ldn (Day-Night)"]
        IN /\ Numeric(v) <=> both
           /\ ~both => v = NoData

\* C8 witness: Day and Night samples without any Evening sample give a
\* numeric Ldn while Lden is "No Data".
C8_Witness ==
    /\ Processed
    /\ \E i, k \in 1..Len(Sheet) :
          /\ IsDay(Sheet[i]) /\ IsNightTime(Sheet[k])
          /\ HasLAeq(Sheet[i]) /\ HasLAeq(Sheet[k])
    /\ \A j \in 1..Len(Sheet) : ~IsEvening(Sheet[j])
    /\ Numeric(Overall["Ldn (Day-Night)"])
    /\ Overall["Lden (Day-Evening-Night)"] = NoData

SampleStd(xs) ==
    LET n == Len(xs)
        sum == SumQ(xs).n
        sumsq == SumQ([i \in 1..n |-> QMul(xs[i], xs[i])]).n
    IN Sqrt(Q(n * sumsq - sum * sum, n * (n - 1)))

\* The non-missing LAeq cells of the sheet rows satisfying P.
LAeqOfRows(P(_)) ==
    LET rows == SelectSeq(Sheet, LAMBDA r : P(r) /\ HasLAeq(r))
    IN [i \in 1..Len(rows) |-> rows[i].LAeq]

\* C10: the LAeq standard deviation of a period is the sample standard
\* deviation (divisor n - 1) of its non-missing LAeq values, and "No Data"
\* when the period has none.
C10_SampleStd ==
    Processed =>
        /\ Len(LAeqOfRows(IsDaytime)) = 0 => Overall["Overall LAeq Std Day"] = NoData
        /\ Len(LAeqOfRows(IsNightTime)) = 0 => Overall["Overall LAeq Std Night"] = NoData
        /\ Len(LAeqOfRows(IsDaytime)) >= 2 =>
              Overall["Overall LAeq Std Day"] = SampleStd(LAeqOfRows(IsDaytime))
        /\ Len(LAeqOfRows(IsNightTime)) >= 2 =>
              Overall["Overall LAeq Std Night"] = SampleStd(LAeqOfRows(IsNightTime))

\* Rank by counting, on the non-missing values xs of a series: v is the k-th
\* smallest when fewer than k values lie below it and at least k do not lie
\* above it; likewise the k-th largest.  Equal values occupy separate ranks.
Present(series) == SelectSeq(series, LAMBDA v : v.t = "num")

CountBelow(xs, v) == Cardinality({i \in 1..Len(xs) : xs[i] # v /\ QLe(xs[i], v)})

CountAbove(xs, v) == Cardinality({i \in 1..Len(xs) : xs[i] # v /\ QLe(v, xs[i])})

CountEqual(xs, v) == Cardinality({i \in 1..Len(xs) : xs[i] = v})

IsKthSmallest(xs, k, v) ==
    /\ CountEqual(xs, v) > 0
    /\ CountBelow(xs, v) < k
    /\ k <= CountBelow(xs, v) + CountEqual(xs, v)

IsKthLargest(xs, k, v) ==
    /\ CountEqual(xs, v) > 0
    /\ CountAbove(xs, v) < k
    /\ k <= CountAbove(xs, v) + CountEqual(xs, v)

\* C11: nth_highest / nth_lowest return the value at 1-based rank n of the
\* non-missing values in descending / ascending order, duplicates occupying
\* separate ranks, and return None whenever fewer than n non-missing values
\* exist; nth_highest([80,75,90], 1) = 90 and nth_highest([80,75], 3) = None.
C11_NthRank ==
    nth_ret # None =>
        LET series == nth_call[1].series
            n == nth_call[1].n
            xs == Present(series)
            r == nth_ret[1]
        IN /\ Len(xs) < n => r.highest = None /\ r.lowest = None
           /\ Len(xs) >= n =>
                 /\ r.highest # None /\ IsKthLargest(xs, n, r.highest[1])
                 /\ r.lowest # None /\ IsKthSmallest(xs, n, r.lowest[1])
           /\ series = <<Whole(80), Whole(75), Whole(90)>> /\ n = 1
                 => r.highest = Some(Whole(90))
           /\ series = <<Whole(80), Whole(75)>> /\ n = 3 => r.highest = None

\* Exactly n values, one of them repeated and one cell missing: the rank is
\* reached through the duplicate.
C11_Witness ==
    /\ nth_ret # None
    /\ nth_call[1].series = <<Whole(80), NaN, Whole(80)>>
    /\ nth_call[1].n = 2
    /\ nth_ret[1].highest = Some(Whole(80))
    /\ nth_ret[1].lowest = Some(Whole(80))

\* The cells of one column on the sheet rows of a period that hold a number.
CellsOf(P(_), col) ==
    LET rows == SelectSeq(Sheet, LAMBDA r : P(r) /\ r[col].t = "num")
    IN [i \in 1..Len(rows) |-> rows[i][col]]

\* The entry is "No Data" exactly when fewer than ten values exist, and is
\* otherwise the tenth largest (smallest) of them.
TenthLargest(xs, v) ==
    IF Len(xs) < 10 THEN v = NoData ELSE v # NoData /\ IsKthLargest(xs, 10, v)

TenthSmallest(xs, v) ==
    IF Len(xs) < 10 THEN v = NoData ELSE v # NoData /\ IsKthSmallest(xs, 10, v)

\* C12: "10th Highest Lmax" and "10th Lowest L90", for Day and for Night,
\* are "No Data" exactly when the period has fewer than 10 non-missing LAmax
\* (LA90) values and otherwise the 10th-ranked value of the period's subset;
\* a None returned by the helper is never stored.
C12_TenthRank ==
    Processed =>
        /\ TenthLargest(CellsOf(IsDaytime, "LAmax"), Overall["10th Highest Lmax Day"])
        /\ TenthLargest(CellsOf(IsNightTime, "LAmax"), Overall["10th Highest Lmax Night"])
        /\ TenthSmallest(CellsOf(IsDaytime, "LA90"), Overall["10th Lowest L90 Day"])
        /\ TenthSmallest(CellsOf(IsNightTime, "LA90"), Overall["10th Lowest L90 Night"])

\* Eleven Night-time rows of which ten hold levels: the Night entries are
\* the lowest LAmax and the highest LA90, the Day entries "No Data".
C12_Witness ==
    /\ Processed
    /\ Len(Sheet) = 11
    /\ Len(CellsOf(IsNightTime, "LAmax")) = 10
    /\ Overall["10th Highest Lmax Night"] = Whole(60)
    /\ Overall["10th Lowest L90 Night"] = Whole(40)
    /\ Overall["10th Highest Lmax Day"] = NoData
    /\ Overall["10th Lowest L90 Day"] = NoData

\* v is the most frequent of the values xs, the smallest one among equally
\* frequent values, and "No Data" when there is no value.
IsMode(xs, v) ==
    IF Len(xs) = 0 THEN v = NoData
    ELSE /\ v # NoData
         /\ CountEqual(xs, v) > 0
         /\ \A i \in 1..Len(xs) :
               /\ CountEqual(xs, xs[i]) <= CountEqual(xs, v)
               /\ CountEqual(xs, xs[i]) = CountEqual(xs, v) => QLe(v, xs[i])

\* C13: the LA90 descriptor, daily and overall, Day and Night, is the most
\* frequent value among the subset's non-missing LA90 values, the smallest
\* one when several are equally frequent, and "No Data" for a subset
\* without LA90 values.
C13_LA90Mode ==
    Processed =>
        /\ IsMode(CellsOf(IsDaytime, "LA90"), Overall["Overall LA90 Day"])
        /\ IsMode(CellsOf(IsNightTime, "LA90"), Overall["Overall LA90 Night"])
        /\ \A k \in 1..Len(Summary) :
              LET d == Summary[k]["Date"].ord
              IN /\ IsMode(CellsOf(LAMBDA r : IsDaytime(r) /\ ReportingDay(r) = d, "LA90"),
                           Summary[k]["LA90 Day"])
                 /\ IsMode(CellsOf(LAMBDA r : IsNightTime(r) /\ ReportingDay(r) = d, "LA90"),
                           Summary[k]["LA90 Night"])

\* Daytime LA90 values 70, 70 and 65 over two dates: the overall mode is the
\* repeated 70, the first date holds 70 and 65 once each and reports 65.
C13_Witness ==
    /\ Processed
    /\ Len(CellsOf(IsDaytime, "LA90")) = 3
    /\ CountEqual(CellsOf(IsDaytime, "LA90"), Whole(70)) = 2
    /\ CountEqual(CellsOf(IsDaytime, "LA90"), Whole(65)) = 1
    /\ Overall["Overall LA90 Day"] = Whole(70)
    /\ Len(Summary) = 2
    /\ Summary[1]["LA90 Day"] = Whole(65)
    /\ Summary[2]["LA90 Day"] = Whole(70)

\* The p-th percentile of the values xs by linear interpolation between
\* closest ranks: with h = (n - 1) * p / 100, the value of rank floor(h) + 1
\* plus the fraction of h times the step to the next rank.
KthSmallest(xs, k) ==
    LET i == CHOOSE j \in 1..Len(xs) : IsKthSmallest(xs, k, xs[j]) IN xs[i]

IsPercentile(xs, p, v) ==
    IF Len(xs) = 0 THEN v = NoData
    ELSE LET h == (Len(xs) - 1) * p
             a == KthSmallest(xs, h \div 100 + 1)
         IN IF h % 100 = 0 THEN v = a
            ELSE LET b == KthSmallest(xs, h \div 100 + 2)
                 IN v = Q(100 * a.n * b.d + (h % 100) * (b.n * a.d - a.n * b.d),
                          100 * a.d * b.d)

\* C14: the overall L10, L50 and L95 are the 90th, the 50th and the 5th
\* percentile of the period's non-missing LAeq values, separately for
\* Daytime and Night-time, and "No Data" when the period has none.
C14_ExceedanceLevels ==
    Processed =>
        LET day == CellsOf(IsDaytime, "LAeq")
            night == CellsOf(IsNightTime, "LAeq")
        IN /\ IsPercentile(day, 90, Overall["Overall L10 Day"])
           /\ IsPercentile(day, 50, Overall["Overall L50 Day"])
           /\ IsPercentile(day, 5, Overall["Overall L95 Day"])
           /\ IsPercentile(night, 90, Overall["Overall L10 Night"])
           /\ IsPercentile(night, 50, Overall["Overall L50 Night"])
           /\ IsPercentile(night, 5, Overall["Overall L95 Night"])

\* Daytime LAeq 40, 50 and 60: L10 = 58, L50 = 50, L95 = 41, and no
\* Night-time value.
C14_Witness ==
    /\ Processed
    /\ Len(CellsOf(IsDaytime, "LAeq")) = 3
    /\ Overall["Overall L10 Day"] = Whole(58)
    /\ Overall["Overall L50 Day"] = Whole(50)
    /\ Overall["Overall L95 Day"] = Whole(41)
    /\ Overall["Overall L10 Night"] = NoData

RECURSIVE EnergySum(_)
\* The sum of 10^(L/10) over levels L that are multiples of 10 dB.
EnergySum(xs) ==
    IF xs = <<>> THEN 0 ELSE Pow10(Head(xs).n \div 10) + EnergySum(Tail(xs))

\* v is the energy average 10*log10(sum(10^(L/10)) / n) of the levels xs,
\* and "No Data" when there is none.
IsEnergyAverage(xs, v) ==
    IF Len(xs) = 0 THEN v = NoData
    ELSE v = TenLog10(Q(EnergySum(xs), Len(xs)), Whole(0))

\* The four reductions of one period and date, each over the rows whose own
\* field is present.
DailyCells(P(_), row, tag) ==
    /\ IsEnergyAverage(CellsOf(P, "LAeq"), row["LAeq " \o tag])
    /\ IsPercentile(CellsOf(P, "LAmax"), 95, row["LAmax " \o tag])
    /\ IsMode(CellsOf(P, "LA90"), row["LA90 " \o tag])
    /\ IsPercentile(CellsOf(P, "LAmin"), 5, row["LAmin " \o tag])

\* C15: a missing field removes the measurement only from the reductions
\* that read that field: per period and date, the LAeq average, the LAmax
\* percentile, the LA90 mode and the LAmin percentile each range over all
\* rows whose own field is present, whatever the row's other fields, and a
\* missing value never aborts the run.
C15_MissingField ==
    /\ input_file # None /\ Len(Sheet) > 0 => dialog # "Processing Error"
    /\ Processed =>
          \A k \in 1..Len(Summary) :
              LET d == Summary[k]["Date"].ord
              IN /\ DailyCells(LAMBDA r : IsDaytime(r) /\ ReportingDay(r) = d, Summary[k], "Day")
                 /\ DailyCells(LAMBDA r : IsNightTime(r) /\ ReportingDay(r) = d, Summary[k], "Night")

\* One date, Daytime: a row that lacks only LAeq and a row that holds only
\* LAeq.  LAeq comes from the second row, the other three cells from the
\* first.
C15_Witness ==
    /\ Processed
    /\ Len(Sheet) = 2
    /\ Sheet[1].LAeq = NaN /\ Sheet[1].LAmax = Whole(66)
    /\ Sheet[2].LAeq = Whole(60) /\ Sheet[2].LAmax = NaN
    /\ Len(Summary) = 1
    /\ Summary[1]["LAeq Day"] = Whole(60)
    /\ Summary[1]["LAmax Day"] = Whole(66)
    /\ Summary[1]["LA90 Day"] = Whole(70)
    /\ Summary[1]["LAmin Day"] = Whole(31)

\* The workbook a stored frame was read from: its six sheet columns.
SourceOf(df) ==
    [i \in 1..Len(df) |->
        [Date |-> df[i].Date, Time |-> df[i].Time, LAeq |-> df[i].LAeq,
         LAmax |-> df[i].LAmax, LA90 |-> df[i].LA90, LAmin |-> df[i].LAmin]]

\* C16: a run on the same input as an earlier run yields the same daily
\* summary rows and overall metrics (the export of the earlier run and the
\* stored results of the latest run agree whenever they hold the same
\* frame), and the stored results are those of the stored frame's workbook
\* alone, whatever was processed before.
C16_Idempotent ==
    /\ excel_out # None /\ raw_data # None /\ excel_out[1].FullData = raw_data[1]
          => /\ excel_out[1].DailySummary = latest_summary[1]
             /\ excel_out[1].OverallMetrics = latest_overall[1]
    /\ raw_data # None
          => LET df1 == Parsed(SourceOf(raw_data[1]))
             IN /\ latest_summary = Some(daily_summary_df(df1))
                /\ latest_overall = Some(overall_values(WithPeriodLden(df1)))
                /\ raw_data = Some(WithPeriodLden(df1))

\* The latest run processed the workbook now selected, without exporting,
\* after an earlier run had exported the results of a different workbook
\* that held Night-time samples the current one lacks.
C16_Witness ==
    /\ Processed
    /\ input_file = Some(SourceOf(raw_data[1]))
    /\ excel_out # None
    /\ excel_out[1].FullData # raw_data[1]
    /\ excel_out[1].OverallMetrics["Overall LAeq Night"] # NoData
    /\ latest_overall[1]["Overall LAeq Night"] = NoData
    /\ latest_overall[1]["Overall LAeq Day"] # NoData

\* The LAeq term the Ldn code derives inline from the stored frame for one
\* period, as a cell: "No Data" stands for the term being None.
InlineTerm(period) == OrNoData(EnergyLevel(dropna(Loc(Frame, "Period", period, "LAeq"))))

\* C17: the energy average taken from the pre-derived linear-power column
\* equals the one that converts inline: the Day and Night LAeq terms used
\* inside Ldn equal "Overall LAeq Day" and "Overall LAeq Night" (so that Ldn
\* is the 16/24 and 8/24 (+10 dB) combination of these two entries), and for
\* a dataset confined to one reporting date the daily LAeq Day / Night equal
\* the overall LAeq Day / Night.
C17_LinearColumn ==
    Processed =>
        LET day == Overall["Overall LAeq Day"]
            night == Overall["Overall LAeq Night"]
        IN /\ InlineTerm("Daytime") = day
           /\ InlineTerm("Night-time") = night
           /\ IF day # NoData /\ night # NoData
              THEN LET a == Weighted(Q(16, 24), Linear(day))
                       c == Weighted(Q(80, 24), Linear(night))
                   IN Overall["Ldn (Day-Night)"] = TenLog10(QAdd(a[1], c[1]), QAdd(a[2], c[2]))
              ELSE Overall["Ldn (Day-Night)"] = NoData
           /\ Len(Summary) = 1 =>
                 /\ Summary[1]["LAeq Day"] = day
                 /\ Summary[1]["LAeq Night"] = night

\* One reporting date with Daytime samples at 40 and 50 dB, one without
\* LAeq, and a Night-time sample: daily and overall LAeq Day are both
\* 10*log10(55000), and Ldn is a number.
C17_Witness ==
    /\ Processed
    /\ Len(Summary) = 1
    /\ Len(Sheet) = 4
    /\ \E i \in 1..Len(Sheet) : IsDaytime(Sheet[i]) /\ Sheet[i].LAeq = NaN
    /\ Overall["Overall LAeq Day"] = [t |-> "10log10", q |-> Whole(55000), s |-> Whole(0)]
    /\ Summary[1]["LAeq Day"] = Overall["Overall LAeq Day"]
    /\ Overall["Overall LAeq Night"] # NoData
    /\ Overall["Ldn (Day-Night)"] # NoData

\* The mean linear power sum(10^(L/10)) / n of the levels xs.
MeanPower(xs) == Q(EnergySum(xs), Len(xs))

\* The sheet with every row of one Lden period written twice.
Doubled(P(_)) == Sheet \o SelectSeq(Sheet, P)

\* Lden of a workbook, as process_data computes it.
LdenOfSheet(sheet) == Lden(WithPeriodLden(Parsed(sheet)))

\* C18: Lden depends on the Day, Evening and Night subsets only through
\* their three energy-averaged levels, combined with the fixed weights
\* 12/24, 4/24 and 8/24 and the penalties +5 dB (Evening) and +10 dB
\* (Night), whatever the number of samples per period: duplicating every
\* sample of one period leaves Lden unchanged.
C18_LdenWeights ==
    Processed =>
        LET d == CellsOf(IsDay, "LAeq")
            e == CellsOf(IsEvening, "LAeq")
            n == CellsOf(IsNightTime, "LAeq")
            lden == Overall["Lden (Day-Evening-Night)"]
        IN /\ IF Len(d) > 0 /\ Len(e) > 0 /\ Len(n) > 0
              THEN lden = TenLog10(QAdd(QMul(Q(12, 24), MeanPower(d)),
                                        QMul(Q(80, 24), MeanPower(n))),
                                   QMul(Q(4, 24), MeanPower(e)))
              ELSE lden = NoData
           /\ LdenOfSheet(Doubled(IsDay)) = lden
           /\ LdenOfSheet(Doubled(IsEvening)) = lden
           /\ LdenOfSheet(Doubled(IsNightTime)) = lden

\* Two Day samples at 40 and 50 dB, one Evening sample at 50 dB and one
\* Night sample at 40 dB: Lden = 10*log10((12*55000 + 80*10000)/24 +
\* (4*100000/24)*sqrt(10)).
C18_Witness ==
    /\ Processed
    /\ Len(CellsOf(IsDay, "LAeq")) = 2
    /\ Len(CellsOf(IsEvening, "LAeq")) = 1
    /\ Len(CellsOf(IsNightTime, "LAeq")) = 1
    /\ Overall["Lden (Day-Evening-Night)"] =
          [t |-> "10log10", q |-> Q(12 * 55000 + 80 * 10000, 24), s |-> Q(4 * 100000, 24)]

\* All levels of xs are the same level; the arithmetic mean of levels in dB.
Homogeneous(xs) == Len(xs) > 0 /\ \A i \in 1..Len(xs) : xs[i] = xs[1]

RECURSIVE LevelSum(_)
LevelSum(xs) == IF xs = <<>> THEN 0 ELSE Head(xs).n + LevelSum(Tail(xs))

ArithmeticMean(xs) == Q(LevelSum(xs), Len(xs))

\* n >= 1 copies of a level average to that level, and levels that differ
\* never average to their arithmetic mean.
AveragesItself(xs, v) ==
    /\ Homogeneous(xs) => v = xs[1]
    /\ Len(xs) > 0 /\ ~Homogeneous(xs) => v # NoData /\ v # ArithmeticMean(xs)

IsMiddle(xs, v) ==
    /\ CountEqual(xs, v) > 0
    /\ 2 * CountBelow(xs, v) < Len(xs)
    /\ 2 * CountAbove(xs, v) < Len(xs)

\* C20: the 50th percentile of an odd number of non-missing values is the
\* exact median, the middle element of the sorted values, without any
\* interpolation ("Overall L50" is percentile(levels, 50)).
C20_OddMedian ==
    Processed =>
        LET day == CellsOf(IsDaytime, "LAeq")
            night == CellsOf(IsNightTime, "LAeq")
        IN /\ Len(day) % 2 = 1 => IsMiddle(day, Overall["Overall L50 Day"])
           /\ Len(night) % 2 = 1 => IsMiddle(night, Overall["Overall L50 Night"])

\* Daytime LAeq 40, 60 and 50 in an order that is not sorted, on three
\* rows: the median is 50.
C20_Witness ==
    /\ Processed
    /\ Len(CellsOf(IsDaytime, "LAeq")) = 3
    /\ CellsOf(IsDaytime, "LAeq")[2] = Whole(60)
    /\ CountEqual(CellsOf(IsDaytime, "LAeq"), Whole(40)) = 1
    /\ CountEqual(CellsOf(IsDaytime, "LAeq"), Whole(50)) = 1
    /\ Overall["Overall L50 Day"] = Whole(50)

\* The measurement sets the output box reports on, in the order of its
\* lines: those of Low, of Medium and of High.
PastedSets ==
    LET ls == lines(text_boxes["Low"]) \o lines(text_boxes["Medium"])
              \o lines(text_boxes["High"])
    IN [i \in 1..Len(ls) |-> [j \in 1..Len(ls[i]) |-> ls[i][j].v]]

Generated == output # <<>>

\* The frequencies, in band order, at which P holds.
FrequenciesWhere(P(_)) ==
    LET bands == SelectSeq([i \in 1..Len(FREQUENCIES) |-> i], P)
    IN [j \in 1..Len(bands) |-> FREQUENCIES[bands[j]]]

\* C21: for each measurement set the NR tool reports the frequencies whose
\* level exceeds the NR curves the user ticked.
C21_ExceedSelected ==
    Generated =>
        \A i \in 1..Len(output) :
            output[i].exceeded =
                FrequenciesWhere(LAMBDA b : \E c \in DOMAIN NR_CURVES :
                                     /\ curve_vars[c]
                                     /\ ~QLe(PastedSets[i][b], Whole(NR_CURVES[c][b])))

\* The lowest and the highest NR curve and the step between adjacent ones.
LowestCurve == CHOOSE k \in DOMAIN NR_CURVES : \A c \in DOMAIN NR_CURVES : k <= c

HighestCurve == CHOOSE k \in DOMAIN NR_CURVES : \A c \in DOMAIN NR_CURVES : c <= k

\* The adjacent curves NRk and NRk+5 bracket the level m of band b; the
\* lowest pair also serves every level below it, the highest pair every
\* level above it.
Brackets(k, b, m) ==
    /\ k \in DOMAIN NR_CURVES
    /\ k + 5 \in DOMAIN NR_CURVES
    /\ \/ QLe(Whole(NR_CURVES[k][b]), m) /\ QLe(m, Whole(NR_CURVES[k + 5][b]))
       \/ k = LowestCurve /\ QLe(m, Whole(NR_CURVES[k][b]))
       \/ k + 5 = HighestCurve /\ QLe(Whole(NR_CURVES[k + 5][b]), m)

\* The value at the level m of band b of the straight line through
\* (level of NRk, k) and (level of NRk+5, k + 5).
LineAt(k, b, m) ==
    QAdd(Whole(k), QMul(Q(5, NR_CURVES[k + 5][b] - NR_CURVES[k][b]),
                        QSub(m, Whole(NR_CURVES[k][b]))))

\* The per-band ratings of the level m of band b, one for each pair of
\* curves that brackets it.
BandRatings(b, m) == {LineAt(k, b, m) : k \in {c \in DOMAIN NR_CURVES : Brackets(c, b, m)}}

\* v is r rounded to one decimal place: a whole number of tenths at most
\* half a tenth away from r.
IsRounded1(v, r) ==
    /\ 10 % v.d = 0
    /\ QLe(QSub(r, v), Q(1, 20))
    /\ QLe(QSub(v, r), Q(1, 20))

\* r is the largest of the per-band ratings of a spectrum.
IsRating(values, r) ==
    /\ \E b \in 1..Len(values) : r \in BandRatings(b, values[b])
    /\ \A b \in 1..Len(values) : \A x \in BandRatings(b, values[b]) : QLe(x, r)

\* C22: the reported rating is the maximum over the eight bands of the
\* rating interpolated (or extrapolated below NR20 and above NR50) between
\* the two adjacent curves that bracket the band's level, rounded to one
\* decimal; a spectrum equal to NRk in every band is rated k.
C22_Rating ==
    Generated =>
        \A i \in 1..Len(output) :
            /\ \E b \in 1..Len(PastedSets[i]) :
                  \E r \in BandRatings(b, PastedSets[i][b]) :
                      /\ IsRating(PastedSets[i], r)
                      /\ IsRounded1(output[i].rating, r)
            /\ \A k \in DOMAIN NR_CURVES :
                  PastedSets[i] = CurveLevels(k) => output[i].rating = Whole(k)

\* The NR50 levels with 63 Hz raised by 1.5 dB: that band is extrapolated
\* to 51.875, reported as 51.9; Medium is the NR20 curve itself, rated 20.
C22_Witness ==
    /\ Generated
    /\ PastedSets[1][1] = Q(153, 2)
    /\ \A b \in 2..Len(FREQUENCIES) : PastedSets[1][b] = Whole(NR_CURVES[50][b])
    /\ output[1].rating = Q(519, 10)
    /\ PastedSets[2] = CurveLevels(20)
    /\ output[2].rating = Whole(20)

\* The frequencies at which a spectrum lies above the highest curve.
AboveHighest(values) ==
    FrequenciesWhere(LAMBDA b : ~QLe(values[b], Whole(NR_CURVES[HighestCurve][b])))

ProcessFirst ==
    {"Report: No summary data available. Please process a file first.",
     "Database: No summary data available. Please process a file first.",
     "Mapping: No processed data available. Please process a file first.",
     "Graph: Please process a file first.",
     "Events: Please process a file first.",
     "Spectrum: Please process a file first."}

\* A step of one of the eight buttons that need a daily summary.
SummaryButton ==
    \/ generate_pdf_report
    \/ store_summary_to_db
    \/ run_mapping
    \/ plot_overlaid_levels
    \/ plot_histograms
    \/ plot_long_term_trend
    \/ detect_events
    \/ plot_octave_band

\* A step of process_data that stores its results.
Stores == ProcessDataDone \/ ProcessDataExportError

\* C23: while latest_summary is None each of the eight buttons only shows
\* its warning and performs no report, database, map or plot action; such
\* an action happens only with a stored summary, and a summary is stored
\* only by process_data.
C23_ProcessFirst ==
    [][/\ latest_summary = None /\ SummaryButton =>
              /\ dialog' \in ProcessFirst
              /\ UNCHANGED <<effect, appVars>>
       /\ effect' # effect => latest_summary # None
       /\ latest_summary = None /\ latest_summary' # None => Stores]_vars

\* A workbook is chosen but not processed, and the database button was
\* pressed: its warning is up and nothing was done.
C23_Witness ==
    /\ input_file # None
    /\ latest_summary = None
    /\ dialog = "Database: No summary data available. Please process a file first."
    /\ effect = None

\* The rows of the processed frame that carry a label in a period column.
RowsLabelled(col, label) == {i \in 1..Len(Frame) : Frame[i][col] = label}

\* C24: for every valid timestamp the Lden period is Night exactly when the
\* simple period is Night-time, and Day or Evening exactly when the simple
\* period is Daytime; the Night rows of Lden are the Night-time rows of Ldn
\* and of Overall LAeq Night.
C24_NightAgrees ==
    Processed =>
        /\ \A i \in 1..Len(Sheet) :
              ValidStamp(Sheet[i]) =>
                  /\ Frame[i].Period_lden = "Night" <=> Frame[i].Period = "Night-time"
                  /\ Frame[i].Period_lden \in {"Day", "Evening"} <=> Frame[i].Period = "Daytime"
        /\ RowsLabelled("Period_lden", "Night") = RowsLabelled("Period", "Night-time")

\* A processed workbook with a 22:59:59 row, Evening and Daytime, and a
\* 23:00:00 row, Night and Night-time.
C24_Witness ==
    /\ Processed
    /\ Len(Sheet) = 2
    /\ ValidStamp(Sheet[1]) /\ Sheet[1].Time.hms = <<22, 59, 59>>
    /\ Frame[1].Period_lden = "Evening" /\ Frame[1].Period = "Daytime"
    /\ ValidStamp(Sheet[2]) /\ Sheet[2].Time.hms = <<23, 0, 0>>
    /\ RowsLabelled("Period_lden", "Night") = {2}
    /\ RowsLabelled("Period", "Night-time") = {2}

\* The samples the daily row of reporting date d is computed from, as the
\* sheet rows they were read from.
Attributed(period, d) ==
    LET picked == PeriodRows(Frame, period, d)
    IN {[Date |-> picked[i].Date, Time |-> picked[i].Time] : i \in 1..Len(picked)}

\* C25: every Daytime sample of the daily row of date D was taken on D;
\* every Night-time sample of that row was taken on D at or after 23:00:00
\* or on D+1 before 07:00:00; no sample taken before 07:00:00 on D is
\* counted in the row of D.
C25_DailyPartition ==
    Processed =>
        \A k \in 1..Len(Summary) :
            LET D == Summary[k]["Date"].ord
            IN /\ \A r \in Attributed("Daytime", D) :
                     ValidStamp(r) /\ r.Date.ord = D
               /\ \A r \in Attributed("Night-time", D) :
                     /\ ValidStamp(r)
                     /\ \/ r.Date.ord = D /\ Secs(r) >= 23 * 3600
                        \/ r.Date.ord = D + 1 /\ Secs(r) < 7 * 3600
               /\ \A r \in Attributed("Daytime", D) \cup Attributed("Night-time", D) :
                     ~(r.Date.ord = D /\ Secs(r) < 7 * 3600)

\* 2024-03-01 23:00:00 and 2024-03-02 06:59:59 make up the night of the
\* single daily row, that of 2024-03-01.
C25_Witness ==
    /\ Processed
    /\ Len(Sheet) = 2
    /\ IsStamp(Sheet[1], Mar01, 23, 0, 0)
    /\ IsStamp(Sheet[2], Mar02, 6, 59, 59)
    /\ Len(Summary) = 1
    /\ Summary[1]["Date"] = Date(Mar01)
    /\ Cardinality(Attributed("Night-time", Mar01)) = 2

\* v lies between the smallest and the largest of the values xs.
Within(xs, v) ==
    /\ \E i \in 1..Len(xs) : QLe(xs[i], v)
    /\ \E i \in 1..Len(xs) : QLe(v, xs[i])

\* The three percentile levels of a period with the values xs are ordered
\* and lie between the smallest and the largest value.
OrderedLevels(xs, l95, l50, l10) ==
    Len(xs) > 0 =>
        /\ l95 # NoData /\ l50 # NoData /\ l10 # NoData
        /\ QLe(l95, l50) /\ QLe(l50, l10)
        /\ Within(xs, l95) /\ Within(xs, l50) /\ Within(xs, l10)

\* C26: whenever a period has a non-missing LAeq value its overall levels
\* satisfy L95 <= L50 <= L10, and each lies between the minimum and the
\* maximum LAeq of the period.
C26_LevelsOrdered ==
    Processed =>
        /\ OrderedLevels(CellsOf(IsDaytime, "LAeq"), Overall["Overall L95 Day"],
                         Overall["Overall L50 Day"], Overall["Overall L10 Day"])
        /\ OrderedLevels(CellsOf(IsNightTime, "LAeq"), Overall["Overall L95 Night"],
                         Overall["Overall L50 Night"], Overall["Overall L10 Night"])

\* Daytime rows with LAeq 60, none and 40, and no Night-time row with a
\* level: L95 = 41 < L50 = 50 < L10 = 58, all strictly inside 40..60.
C26_Witness ==
    /\ Processed
    /\ Len(Sheet) = 3
    /\ \A i \in 1..Len(Sheet) : IsDaytime(Sheet[i])
    /\ Sheet[1].LAeq = Whole(60) /\ Sheet[2].LAeq = NaN /\ Sheet[3].LAeq = Whole(40)
    /\ Overall["Overall L95 Day"] = Whole(41)
    /\ Overall["Overall L50 Day"] = Whole(50)
    /\ Overall["Overall L10 Day"] = Whole(58)
    /\ Overall["Overall L95 Night"] = NoData

\* C27: a step that ends with the 'Processing Error' dialog leaves
\* latest_summary, latest_overall and raw_data exactly as they were, so
\* that the report and the database keep using the results of the last run
\* that reported success.
C27_ErrorKeepsResults ==
    [][dialog' = "Processing Error" =>
           UNCHANGED <<latest_summary, latest_overall, raw_data>>]_vars

\* C28: in NoiseMetricsApp summary is None exactly when df is None, and
\* when both are set summary is the daily metrics of the current df; what
\* _export writes is a summary next to the hourly data it was computed
\* from.
C28_SummaryOfDf ==
    /\ self_summary = None <=> self_df = None
    /\ self_summary # None /\ self_df # None =>
          /\ "Level_dB" \in self_df[1].columns
          /\ self_summary[1] = calculate_daily_metrics(self_df[1])
    /\ exported # None =>
          /\ "Level_dB" \in exported[1].HourlyData.columns
          /\ exported[1].DailyMetrics = calculate_daily_metrics(exported[1].HourlyData)
====
